---- MODULE Spec2Model ----
(***************************************************************************)
(* Flyer lifecycle and enrichment pipeline of ocr_discount:                *)
(*   combined_pdf_scrapper.py  parse_hofer_dates, find_most_relevant_flyer,*)
(*                             scrape_billa, __main__                      *)
(*   leaflet_downloader.py     slugify, cleanup sweep, download loop       *)
(*   data_enricher.py          process_batch, enrich_data_with_llm         *)
(*   new_gem_catego_2.py       processed log, analyze_pdf_with_gemini_..., *)
(*                             process_active_flyers                       *)
(* Texts and file names are sequences of one-character strings, so that    *)
(* the regular expressions, slugify and endswith act on characters.        *)
(***************************************************************************)
EXTENDS Integers, Sequences, FiniteSets, TLC

VARIABLES
    \* find_most_relevant_flyer(flyers_data)
    flyers_data, today, res_pc, result, warned,
    \* combined_pdf_scrapper.py __main__
    sc_pc, all_flyers, json_file,
    \* leaflet_downloader.py __main__: the loaded list, the downloads
    \* directory (file name -> content), the position in the download loop
    dl_pc, dl_flyers, files, dl_i,
    \* which run of the downloader this is, the directory when it started,
    \* and what the run did so far
    run, dir_start, deleted, del_failed, opened, attempted, succeeded,
    \* enrich_data_with_llm(offers): the list it updates in place, the list
    \* as it was passed, the batch and attempt in progress, the backoff
    \* sleeps of the batch, and what the pass did so far
    en_pc, offers, input_offers, batch_index, current_offset, attempt, sleeps,
    accepted, abandoned, successful_enrichments, enriched_data,
    \* the minimal inputs process_batch was called with, the list its last
    \* call returned, offers as it was before that list was merged, and
    \* enriched_retail_data.json as __main__ of data_enricher.py leaves it
    dispatches, processed_batch, offers_before, output_file,
    \* one call parse_hofer_dates(parse_str, parse_year)
    parse_str, parse_year, parse_pc, parse_ret,
    \* one call calculate_billa_duration_range() on the day billa_today
    billa_today, billa_pc, billa_ret,
    \* process_active_flyers of new_gem_catego_2.py: the downloads directory
    \* (file name -> pages), processed_flyer_log.json now and at the start of
    \* the run, the calls of save_processed_log, the set load_processed_log
    \* returned, the set in memory, the globbed list and the position in it
    cat_pc, downloads, log_file, log_start, log_saves, loaded_log,
    processed_files, pdf_files, pdf_i,
    \* the calls of load_processed_log of the run
    log_loads,
    \* one call of post_process_data: the name of the PDF, the
    \* availabilityDateRange of the offer, and the dates written into it
    pp_pc, pp_filename, pp_range, pp_offer,
    \* analyze_pdf_with_gemini_vision: the chunk in progress, the files
    \* uploaded so far, the chunks merged into combined_raw_data
    chunk_index, all_uploaded_files, combined_raw_data,
    \* what the run did per file: calls of analyze_pdf_with_gemini_vision,
    \* uploads, generate_content calls, chunks whose response did not
    \* parse, the value analyze returned; the files left at the service,
    \* the files client.files.delete was called for, and extracted_json/
    cat_attempts, cat_uploads, cat_calls, cat_lost, cat_success,
    remote_files, delete_attempts, extracted_json

resolveVars == <<flyers_data, today, res_pc, result, warned>>

scrapeVars == <<sc_pc, all_flyers, json_file>>

syncVars == <<dl_pc, dl_flyers, files, dl_i,
              run, dir_start, deleted, del_failed, opened, attempted, succeeded>>

enrichVars == <<en_pc, offers, input_offers, batch_index, current_offset,
                attempt, sleeps, accepted, abandoned, successful_enrichments,
                enriched_data, dispatches, processed_batch, offers_before,
                output_file>>

parseVars == <<parse_str, parse_year, parse_pc, parse_ret>>

billaVars == <<billa_today, billa_pc, billa_ret>>

catVars == <<cat_pc, downloads, log_file, log_start, log_saves, loaded_log,
             processed_files, pdf_files, pdf_i,
             chunk_index, all_uploaded_files, combined_raw_data,
             cat_attempts, cat_uploads, cat_calls, cat_lost, cat_success,
             remote_files, delete_attempts, extracted_json, log_loads>>

postVars == <<pp_pc, pp_filename, pp_range, pp_offer>>

vars == <<flyers_data, today, res_pc, result, warned,
          sc_pc, all_flyers, json_file,
          dl_pc, dl_flyers, files, dl_i,
          run, dir_start, deleted, del_failed, opened, attempted, succeeded,
          en_pc, offers, input_offers, batch_index, current_offset,
          attempt, sleeps, accepted, abandoned, successful_enrichments,
          enriched_data, dispatches, processed_batch, offers_before,
          output_file,
          parse_str, parse_year, parse_pc, parse_ret,
          billa_today, billa_pc, billa_ret,
          cat_pc, downloads, log_file, log_start, log_saves, loaded_log,
          processed_files, pdf_files, pdf_i,
          chunk_index, all_uploaded_files, combined_raw_data,
          cat_attempts, cat_uploads, cat_calls, cat_lost, cat_success,
          remote_files, delete_attempts, extracted_json, log_loads,
          pp_pc, pp_filename, pp_range, pp_offer>>

----------------------------------------------------------------------------
(* Bounds of the model                                                     *)

\* largest number of candidate cards handed to find_most_relevant_flyer
MaxCands == 3

\* largest number of HOFER cards on the page of one scraper run
MaxCards == 2

\* largest number of pieces a text handed to parse_hofer_dates is made of
MaxTokens == 3

\* number of days after BillaFirstDay on which the BILLA cycle is computed
MaxDays == 80

\* largest number of offers handed to enrich_data_with_llm
MaxOffers == 3

\* offers per batch: 100 in data_enricher.py line 13, scaled down so that
\* MaxOffers offers make a full batch and a shorter last one
BATCH_SIZE == 2

\* the most pages a flyer PDF has
MaxPages == 3

\* PAGE_CHUNK_SIZE of new_gem_catego_2.py is 30; scaled down with the pages
PAGE_CHUNK_SIZE == 2

----------------------------------------------------------------------------
(* Characters and small helpers                                            *)

DigitChars == {"0", "1", "2", "3", "4", "5", "6", "7", "8", "9"}

IsDigit(c) == c \in DigitChars

DigitVal(c) ==
    CASE c = "0" -> 0 [] c = "1" -> 1 [] c = "2" -> 2 [] c = "3" -> 3
      [] c = "4" -> 4 [] c = "5" -> 5 [] c = "6" -> 6 [] c = "7" -> 7
      [] c = "8" -> 8 [] c = "9" -> 9

DigitChar(n) ==
    CASE n = 0 -> "0" [] n = 1 -> "1" [] n = 2 -> "2" [] n = 3 -> "3"
      [] n = 4 -> "4" [] n = 5 -> "5" [] n = 6 -> "6" [] n = 7 -> "7"
      [] n = 8 -> "8" [] n = 9 -> "9"

\* int(s) of a string of decimal digits
RECURSIVE ToInt(_)
ToInt(s) ==
    IF s = <<>> THEN 0
    ELSE 10 * ToInt(SubSeq(s, 1, Len(s) - 1)) + DigitVal(s[Len(s)])

Min(a, b) == IF a <= b THEN a ELSE b

\* F applied to the value of e, which is computed once
With(e, F(_)) == CHOOSE y \in {F(x) : x \in {e}} : TRUE

----------------------------------------------------------------------------
(* datetime.date                                                           *)

\* None, in the shape of a date so that results compare with dates
NoDate == [year |-> 0, month |-> 0, day |-> 0]

MkDate(y, m, d) == [year |-> y, month |-> m, day |-> d]

IsLeap(y) == (y % 4 = 0) /\ ((y % 100 # 0) \/ (y % 400 = 0))

DaysInMonth(y, m) ==
    IF m = 2 THEN (IF IsLeap(y) THEN 29 ELSE 28)
    ELSE IF m \in {4, 6, 9, 11} THEN 30 ELSE 31

\* date(y, m, d) does not raise ValueError
DateOk(y, m, d) ==
    /\ y >= 1 /\ y <= 9999
    /\ m >= 1 /\ m <= 12
    /\ d >= 1 /\ d <= DaysInMonth(y, m)

\* a < b on dates
DateLT(a, b) ==
    \/ a.year < b.year
    \/ a.year = b.year /\ a.month < b.month
    \/ a.year = b.year /\ a.month = b.month /\ a.day < b.day

DateGE(a, b) == ~DateLT(a, b)

\* d.strftime("%Y-%m-%d")
Strftime(d) ==
    << DigitChar(d.year \div 1000), DigitChar((d.year \div 100) % 10),
       DigitChar((d.year \div 10) % 10), DigitChar(d.year % 10), "-",
       DigitChar(d.month \div 10), DigitChar(d.month % 10), "-",
       DigitChar(d.day \div 10), DigitChar(d.day % 10) >>

\* two-digit field of an f-string, {n:02d}
TwoDigits(n) == <<DigitChar(n \div 10), DigitChar(n % 10)>>

\* days before 1 January of year y
DaysBeforeYear(y) ==
    (y - 1) * 365 + ((y - 1) \div 4) - ((y - 1) \div 100) + ((y - 1) \div 400)

\* days of year y before the first of month m
DaysBeforeMonth(y, m) ==
    LET dbm[k \in 1..12] ==
            IF k = 1 THEN 0 ELSE dbm[k - 1] + DaysInMonth(y, k - 1)
    IN  dbm[m]

\* d.toordinal(): 0001-01-01 is day 1
ToOrdinal(d) == DaysBeforeYear(d.year) + DaysBeforeMonth(d.year, d.month) + d.day

\* date.fromordinal(n)
FromOrdinal(n) ==
    With(CHOOSE y \in (n \div 366)..((n \div 365) + 1) :
            DaysBeforeYear(y) < n /\ n <= DaysBeforeYear(y + 1),
         LAMBDA y :
            With(CHOOSE m \in 1..12 :
                    /\ DaysBeforeMonth(y, m) < n - DaysBeforeYear(y)
                    /\ n - DaysBeforeYear(y)
                          <= DaysBeforeMonth(y, m) + DaysInMonth(y, m),
                 LAMBDA m :
                    MkDate(y, m, n - DaysBeforeYear(y) - DaysBeforeMonth(y, m))))

\* d + timedelta(days=k), k may be negative
AddDays(d, k) == FromOrdinal(ToOrdinal(d) + k)

\* d.isoweekday(): Monday is 1, Sunday is 7
IsoWeekday(d) == ((ToOrdinal(d) + 6) % 7) + 1

----------------------------------------------------------------------------
(* The empty directory, the downloader and the enricher at rest            *)

\* a directory without files
NoFiles == [f \in {} |-> "old"]

SyncIdle ==
    /\ dl_pc = "idle"
    /\ dl_flyers = <<>>
    /\ files = NoFiles
    /\ dl_i = 1
    /\ run = "first"
    /\ dir_start = NoFiles
    /\ deleted = {}
    /\ del_failed = {}
    /\ opened = {}
    /\ attempted = {}
    /\ succeeded = {}

\* enriched_retail_data.json before __main__ of data_enricher.py wrote it
NoOutput == [state |-> "absent", records |-> <<>>]

\* processed_flyer_log.json: missing, not decodable, or a list of file names
NoLog == [state |-> "absent", names |-> {}]

\* a downloads directory without entries: file name -> number of pages
NoDownloads == [f \in {} |-> 0]

\* no call of post_process_data
PostIdle ==
    /\ pp_pc = "idle"
    /\ pp_filename = <<>>
    /\ pp_range = <<>>
    /\ pp_offer = [offerEndDate |-> <<>>, offerStartDate |-> <<>>]

\* the categorizer at rest
CatIdle ==
    /\ cat_pc = "idle"
    /\ downloads = NoDownloads
    /\ log_file = NoLog
    /\ log_start = NoLog
    /\ log_saves = 0
    /\ log_loads = 0
    /\ loaded_log = {}
    /\ processed_files = {}
    /\ pdf_files = <<>>
    /\ pdf_i = 1
    /\ chunk_index = 1
    /\ all_uploaded_files = {}
    /\ combined_raw_data = {}
    /\ cat_attempts = <<>>
    /\ cat_uploads = <<>>
    /\ cat_calls = <<>>
    /\ cat_lost = <<>>
    /\ cat_success = <<>>
    /\ remote_files = {}
    /\ delete_attempts = {}
    /\ extracted_json = <<>>

\* no call of parse_hofer_dates or calculate_billa_duration_range of its own
CallsIdle ==
    /\ parse_str = <<>>
    /\ parse_year = 0
    /\ parse_pc = "idle"
    /\ parse_ret = [raised |-> FALSE, start |-> NoDate, end |-> NoDate]
    /\ billa_today = NoDate
    /\ billa_pc = "idle"
    /\ billa_ret = [start |-> NoDate, end |-> NoDate, text |-> <<>>]

EnrichIdle ==
    /\ en_pc = "idle"
    /\ offers = <<>>
    /\ input_offers = <<>>
    /\ batch_index = 1
    /\ current_offset = 0
    /\ attempt = 0
    /\ sleeps = <<>>
    /\ accepted = {}
    /\ abandoned = {}
    /\ successful_enrichments = 0
    /\ enriched_data = <<>>
    /\ dispatches = <<>>
    /\ processed_batch = <<>>
    /\ offers_before = <<>>
    /\ output_file = NoOutput

----------------------------------------------------------------------------
(* parse_hofer_dates                                                       *)

\* one attempt of (\d{1,2})\.(\d{1,2})\.?(\d{4})? anchored at position i
MatchAt(s, i) ==
    LET n == Len(s)
        dig(k) == k <= n /\ IsDigit(s[k])
        dot(k) == k <= n /\ s[k] = "."
        g1 == IF dig(i) /\ dig(i + 1) /\ dot(i + 2) THEN 2
              ELSE IF dig(i) /\ dot(i + 1) THEN 1 ELSE 0
        j  == i + g1 + 1
        g2 == IF dig(j) /\ dig(j + 1) THEN 2 ELSE IF dig(j) THEN 1 ELSE 0
        k  == j + g2
        k2 == IF dot(k) THEN k + 1 ELSE k
        yr == dig(k2) /\ dig(k2 + 1) /\ dig(k2 + 2) /\ dig(k2 + 3)
    IN  IF g1 = 0 \/ g2 = 0
        THEN [ok |-> FALSE, next |-> i + 1,
              day |-> <<>>, month |-> <<>>, yearstr |-> <<>>]
        ELSE [ok |-> TRUE, next |-> IF yr THEN k2 + 4 ELSE k2,
              day |-> SubSeq(s, i, i + g1 - 1),
              month |-> SubSeq(s, j, j + g2 - 1),
              yearstr |-> IF yr THEN SubSeq(s, k2, k2 + 3) ELSE <<>>]

\* re.findall: the non-overlapping matches, left to right
RECURSIVE FindAll(_, _)
FindAll(s, i) ==
    IF i > Len(s) THEN <<>>
    ELSE With(MatchAt(s, i),
              LAMBDA m : IF m.ok THEN <<m>> \o FindAll(s, m.next)
                         ELSE FindAll(s, i + 1))

\* the loop over match_dates: the matches that construct as a date
RECURSIVE BuildDates(_, _)
BuildDates(ms, current_year) ==
    IF ms = <<>> THEN <<>>
    ELSE LET m == Head(ms)
             y == IF m.yearstr # <<>> THEN ToInt(m.yearstr) ELSE current_year
             mo == ToInt(m.month)
             d == ToInt(m.day)
         IN  (IF DateOk(y, mo, d) THEN <<MkDate(y, mo, d)>> ELSE <<>>)
             \o BuildDates(Tail(ms), current_year)

\* the condition of the year-turnover branch
YearTurnover(start_date, end_date) ==
    DateLT(end_date, start_date) /\ end_date.month < start_date.month

\* mutant of StartAndEnd: the second date of the list is taken as the end
StartAndEnd_secondAsEnd(dates) ==
    LET start_date == dates[1]
        end_date == dates[Min(2, Len(dates))]
    IN  IF YearTurnover(start_date, end_date)
        THEN IF DateOk(end_date.year + 1, end_date.month, end_date.day)
             THEN [raised |-> FALSE, start |-> start_date,
                   end |-> [end_date EXCEPT !.year = @ + 1]]
             ELSE [raised |-> TRUE, start |-> NoDate, end |-> NoDate]
        ELSE [raised |-> FALSE, start |-> start_date, end |-> end_date]

\* lines 70-79, on the non-empty list dates
\* raised = TRUE: end_date.replace(year=...) raised ValueError
StartAndEnd(dates) ==
    LET start_date == dates[1]
        end_date == dates[Len(dates)]
    IN  IF YearTurnover(start_date, end_date)
        THEN IF DateOk(end_date.year + 1, end_date.month, end_date.day)
             THEN [raised |-> FALSE, start |-> start_date,
                   end |-> [end_date EXCEPT !.year = @ + 1]]
             ELSE [raised |-> TRUE, start |-> NoDate, end |-> NoDate]
        ELSE [raised |-> FALSE, start |-> start_date, end |-> end_date]

parse_hofer_dates(duration_str, current_year) ==
    With(FindAll(duration_str, 1),
         LAMBDA match_dates :
            IF match_dates = <<>>
            THEN [raised |-> FALSE, start |-> NoDate, end |-> NoDate]
            ELSE With(BuildDates(match_dates, current_year),
                      LAMBDA dates :
                         IF dates = <<>>
                         THEN [raised |-> FALSE, start |-> NoDate, end |-> NoDate]
                         ELSE StartAndEnd(dates)))

----------------------------------------------------------------------------
(* find_most_relevant_flyer                                                *)

\* mutant of InsertByEnd: an unstable sort, equal keys swap their order
RECURSIVE InsertByEnd_unstable(_, _)
InsertByEnd_unstable(sorted, f) ==
    IF sorted = <<>> THEN <<f>>
    ELSE IF ~DateLT(f.end_date_obj, Head(sorted).end_date_obj)
         THEN <<f>> \o sorted
         ELSE <<Head(sorted)>> \o InsertByEnd_unstable(Tail(sorted), f)

\* list.sort(key=end_date_obj, reverse=True): stable, equal keys keep order
RECURSIVE InsertByEnd(_, _)
InsertByEnd(sorted, f) ==
    IF sorted = <<>> THEN <<f>>
    ELSE IF DateLT(Head(sorted).end_date_obj, f.end_date_obj)
         THEN <<f>> \o sorted
         ELSE <<Head(sorted)>> \o InsertByEnd(Tail(sorted), f)

RECURSIVE SortByEndDesc(_)
SortByEndDesc(fs) ==
    IF fs = <<>> THEN <<>>
    ELSE With(SortByEndDesc(SubSeq(fs, 1, Len(fs) - 1)),
              LAMBDA sorted : InsertByEnd(sorted, fs[Len(fs)]))

\* the flyer with its parsed dates attached (lines 95-96)
WithDates(flyer, p) ==
    [Title |-> flyer.Title, PDF_URL |-> flyer.PDF_URL,
     Duration |-> flyer.Duration,
     start_date_obj |-> p.start, end_date_obj |-> p.end]

\* the parse loop: [raised, parsed] where parsed keeps scan order
RECURSIVE ParseFlyers(_, _)
ParseFlyers(fs, current_year) ==
    IF fs = <<>> THEN [raised |-> FALSE, parsed |-> <<>>]
    ELSE With(parse_hofer_dates(Head(fs).Duration, current_year),
              LAMBDA p :
                 IF p.raised THEN [raised |-> TRUE, parsed |-> <<>>]
                 ELSE With(ParseFlyers(Tail(fs), current_year),
                           LAMBDA rest :
                              IF rest.raised THEN rest
                              ELSE IF p.end # NoDate /\ p.start # NoDate
                              THEN [raised |-> FALSE,
                                    parsed |-> <<WithDates(Head(fs), p)>>
                                               \o rest.parsed]
                              ELSE rest))

\* mutant of IsCurrent: a flyer that ends today counts as expired
IsCurrent_strict(f, td) == DateLT(td, f.end_date_obj)

\* the filter of step 2
IsCurrent(f, td) == DateGE(f.end_date_obj, td)

\* None, in the shape of the returned dict
NoFlyer ==
    [Title |-> <<>>, Retailer |-> <<>>, PDF_URL |-> 0, Duration |-> <<>>,
     StartDate |-> <<>>, EndDate |-> <<>>]

\* current_active_flyers.json when it does not exist
NoFile == [state |-> "absent", flyers |-> <<>>]

HOFER == <<"H", "O", "F", "E", "R">>

FormatFlyer(r) ==
    [Title |-> r.Title, Retailer |-> HOFER, PDF_URL |-> r.PDF_URL,
     Duration |-> r.Duration,
     StartDate |-> Strftime(r.start_date_obj),
     EndDate |-> Strftime(r.end_date_obj)]

\* lines 99-126 on the parsed flyers: [raised, ret, warning]
SelectFlyer(parsed_flyers, td) ==
    With(SelectSeq(parsed_flyers, LAMBDA f : IsCurrent(f, td)),
         LAMBDA upcoming_or_current :
            IF upcoming_or_current # <<>>
            THEN [raised |-> FALSE,
                  ret |-> FormatFlyer(SortByEndDesc(upcoming_or_current)[1]),
                  warning |-> FALSE]
            ELSE IF parsed_flyers # <<>>
            THEN [raised |-> FALSE,
                  ret |-> FormatFlyer(SortByEndDesc(parsed_flyers)[1]),
                  warning |-> TRUE]
            ELSE [raised |-> FALSE, ret |-> NoFlyer, warning |-> FALSE])

\* [raised, ret, warning]
find_most_relevant_flyer(fs, td) ==
    With(ParseFlyers(fs, td.year),
         LAMBDA pf :
            IF pf.raised
            THEN [raised |-> TRUE, ret |-> NoFlyer, warning |-> FALSE]
            ELSE SelectFlyer(pf.parsed, td))

----------------------------------------------------------------------------
(* Inputs of the resolver                                                  *)

\* "Blättern Sie online im HOFER Flugblatt"
TARGET_HOFER_TITLE ==
    <<"B", "l", "ä", "t", "t", "e", "r", "n", " ", "S", "i", "e", " ", "o",
      "n", "l", "i", "n", "e", " ", "i", "m", " ", "H", "O", "F", "E", "R",
      " ", "F", "l", "u", "g", "b", "l", "a", "t", "t">>

\* "20.10. - 22.10."
DurCurrent ==
    <<"2", "0", ".", "1", "0", ".", " ", "-", " ", "2", "2", ".", "1", "0",
      ".">>
\* "13.10. - 20.10."
DurExpired ==
    <<"1", "3", ".", "1", "0", ".", " ", "-", " ", "2", "0", ".", "1", "0",
      ".">>
\* "6.10.-11.10."
DurOlder ==
    <<"6", ".", "1", "0", ".", "-", "1", "1", ".", "1", "0", ".">>
\* "20.10.-26.10."
DurNext ==
    <<"2", "0", ".", "1", "0", ".", "-", "2", "6", ".", "1", "0", ".">>
\* "ab 8.00 23.10.-26.10.2028"
DurNextToo ==
    <<"a", "b", " ", "8", ".", "0", "0", " ", "2", "3", ".", "1", "0", ".",
      "-", "2", "6", ".", "1", "0", ".", "2", "0", "2", "8">>
\* "Duration N/A"
DurNone ==
    <<"D", "u", "r", "a", "t", "i", "o", "n", " ", "N", "/", "A">>
\* "31.9."
DurInvalid ==
    <<"3", "1", ".", "9", ".">>
\* "28.12. - 29.2."
DurFeb29 ==
    <<"2", "8", ".", "1", "2", ".", " ", "-", " ", "2", "9", ".", "2", ".">>

Durations ==
    {DurCurrent, DurExpired, DurOlder, DurNext, DurNextToo, DurNone,
     DurInvalid, DurFeb29}

\* date.today(): a leap year and a common year
Todays == {MkDate(2028, 10, 21), MkDate(2025, 10, 22)}

\* scraped_data of scrape_hofer: cards in page order, PDF_URL = position
CandidateLists ==
    UNION { { [i \in 1..n |-> [Title |-> TARGET_HOFER_TITLE, PDF_URL |-> i,
                               Duration |-> ds[i]]]
              : ds \in [1..n -> Durations] } : n \in 0..MaxCands }

----------------------------------------------------------------------------
(* Specification of the resolver                                           *)

InitResolve ==
    /\ flyers_data \in CandidateLists
    /\ today \in Todays
    /\ res_pc = "call"
    /\ result = NoFlyer
    /\ warned = FALSE
    /\ sc_pc = "idle"
    /\ all_flyers = <<>>
    /\ json_file = NoFile
    /\ SyncIdle
    /\ EnrichIdle
    /\ CallsIdle
    /\ CatIdle
    /\ PostIdle

\* one call of find_most_relevant_flyer(flyers_data) that returns
ResolveReturn ==
    /\ res_pc = "call"
    /\ \E r \in {find_most_relevant_flyer(flyers_data, today)} :
          /\ ~r.raised
          /\ result' = r.ret
          /\ warned' = r.warning
          /\ res_pc' = "returned"
    /\ UNCHANGED <<flyers_data, today, scrapeVars, syncVars, enrichVars, parseVars, catVars,
                   billaVars, postVars>>

\* one call of find_most_relevant_flyer(flyers_data) that raises ValueError
ResolveRaise ==
    /\ res_pc = "call"
    /\ find_most_relevant_flyer(flyers_data, today).raised
    /\ res_pc' = "raised"
    /\ UNCHANGED <<flyers_data, today, result, warned, scrapeVars, syncVars, enrichVars, parseVars, catVars,
                   billaVars, postVars>>

NextResolve == ResolveReturn \/ ResolveRaise

SpecResolve == InitResolve /\ [][NextResolve]_vars

----------------------------------------------------------------------------
(* scrape_hofer, calculate_billa_duration_range, scrape_billa, __main__    *)

BILLA == <<"B", "I", "L", "L", "A">>

\* "BILLA Flugblatt"
BillaTitle ==
    <<"B", "I", "L", "L", "A", " ", "F", "l", "u", "g", "b", "l", "a", "t",
      "t">>

\* "BILLA PLUS Flugblatt"
BillaPlusTitle ==
    <<"B", "I", "L", "L", "A", " ", "P", "L", "U", "S", " ", "F", "l", "u",
      "g", "b", "l", "a", "t", "t">>

\* "VON DONNERSTAG, "
VonDonnerstag ==
    <<"V", "O", "N", " ", "D", "O", "N", "N", "E", "R", "S", "T", "A", "G",
      ",", " ">>

\* " BIS MITTWOCH, "
BisMittwoch ==
    <<" ", "B", "I", "S", " ", "M", "I", "T", "T", "W", "O", "C", "H", ",",
      " ">>

\* mutant of calculate_billa_duration_range: Monday to Wednesday go on to
\* the coming Thursday
calculate_billa_duration_range_comingThursday(td) ==
    With(IsoWeekday(td),
         LAMBDA iso_weekday :
            With(AddDays(td, 4 - iso_weekday),
                 LAMBDA start_date :
                    With(AddDays(start_date, 6),
                         LAMBDA end_date :
                            [start |-> start_date, end |-> end_date,
                             text |-> <<>>])))

\* mutant of calculate_billa_duration_range: Monday to Wednesday go back
\* one day too many
calculate_billa_duration_range_dayOff(td) ==
    With(IsoWeekday(td),
         LAMBDA iso_weekday :
            With(IF iso_weekday >= 4
                 THEN AddDays(td, -(iso_weekday - 4))
                 ELSE AddDays(td, -(iso_weekday + 4)),
                 LAMBDA start_date :
                    With(AddDays(start_date, 6),
                         LAMBDA end_date :
                            [start |-> start_date, end |-> end_date,
                             text |-> <<>>])))

\* [start, end, text] for date.today() = td
calculate_billa_duration_range(td) ==
    With(IsoWeekday(td),
         LAMBDA iso_weekday :
            With(IF iso_weekday >= 4
                 THEN AddDays(td, -(iso_weekday - 4))
                 ELSE AddDays(td, -(iso_weekday + 3)),
                 LAMBDA start_date :
                    With(AddDays(start_date, 6),
                         LAMBDA end_date :
                            [start |-> start_date, end |-> end_date,
                             text |-> VonDonnerstag
                                      \o TwoDigits(start_date.day) \o <<".">>
                                      \o TwoDigits(start_date.month) \o <<".">>
                                      \o BisMittwoch
                                      \o TwoDigits(end_date.day) \o <<".">>
                                      \o TwoDigits(end_date.month) \o <<".">>
                                      \o SubSeq(Strftime(end_date), 1, 4)])))

\* mutant of HoferResults: every parsed card is returned, not the relevant one
HoferResults_all(scraped_data, td) ==
    With(ParseFlyers(scraped_data, td.year),
         LAMBDA pf : IF pf.raised THEN <<>>
                     ELSE [i \in 1..Len(pf.parsed) |-> FormatFlyer(pf.parsed[i])])

\* step 3 of scrape_hofer: [relevant_flyer] or [], [] on any exception
HoferResults(scraped_data, td) ==
    With(find_most_relevant_flyer(scraped_data, td),
         LAMBDA r : IF r.raised \/ r.ret = NoFlyer THEN <<>> ELSE <<r.ret>>)

\* the links scrape_billa looks for: title and the href a found link gives
\* (0 is None)
BillaLinks == <<[title |-> BillaTitle, href |-> 11],
                [title |-> BillaPlusTitle, href |-> 12]>>

\* outcome of driver.find_element and get_attribute for one link
LinkOutcomes == {"found", "found_no_href", "NoSuchElement"}

\* the loop over flyer_selectors; outcome[i] is what happens for link i
BillaResults(outcome, td) ==
    With(calculate_billa_duration_range(td),
         LAMBDA r :
            LET info(i) ==
                    [Title |-> BillaLinks[i].title, Retailer |-> BILLA,
                     PDF_URL |-> IF outcome[i] = "found"
                                 THEN BillaLinks[i].href ELSE 0,
                     Duration |-> r.text,
                     StartDate |-> Strftime(r.start),
                     EndDate |-> Strftime(r.end)]
                one(i) == IF outcome[i] = "NoSuchElement" THEN <<>>
                          ELSE <<info(i)>>
            IN  one(1) \o one(2))

\* the HOFER page as scrape_hofer sees it: cards in page order
HoferCards ==
    UNION { { [i \in 1..n |-> [Title |-> TARGET_HOFER_TITLE, PDF_URL |-> i,
                               Duration |-> ds[i]]]
              : ds \in [1..n -> Durations] } : n \in 0..MaxCards }

InitScrape ==
    /\ flyers_data \in HoferCards
    /\ today \in Todays
    /\ res_pc = "idle"
    /\ result = NoFlyer
    /\ warned = FALSE
    /\ sc_pc = "hofer"
    /\ all_flyers = <<>>
    /\ json_file = NoFile
    /\ SyncIdle
    /\ EnrichIdle
    /\ CallsIdle
    /\ CatIdle
    /\ PostIdle

\* hofer_results = scrape_hofer(driver); all_flyers.extend(hofer_results)
ScrapeHofer ==
    /\ sc_pc = "hofer"
    /\ \/ \* the page loads: cards are parsed and the relevant one is kept
          /\ all_flyers' = all_flyers \o HoferResults(flyers_data, today)
          /\ sc_pc' = "billa"
       \/ \* timeout waiting for the cards: scrape_hofer returns []
          /\ all_flyers' = all_flyers
          /\ sc_pc' = "billa"
       \/ \* driver.get raises: caught at line 305, scrape_billa is not run
          /\ all_flyers' = all_flyers
          /\ sc_pc' = "save"
    /\ UNCHANGED <<resolveVars, json_file, syncVars, enrichVars, parseVars, catVars,
                   billaVars, postVars>>

\* billa_results = scrape_billa(driver); all_flyers.extend(billa_results)
ScrapeBilla ==
    /\ sc_pc = "billa"
    /\ \/ \* the links load: each one is found or not
          \E outcome \in [1..2 -> LinkOutcomes] :
              all_flyers' = all_flyers \o BillaResults(outcome, today)
       \/ \* timeout waiting for the links: scrape_billa returns []
          all_flyers' = all_flyers
       \/ \* driver.get or find_element raises another exception: caught at
          \* line 305, the links found so far are lost
          all_flyers' = all_flyers
    /\ sc_pc' = "save"
    /\ UNCHANGED <<resolveVars, json_file, syncVars, enrichVars, parseVars, catVars,
                   billaVars, postVars>>

\* step 3 of __main__: the file is overwritten when anything was scraped
SaveFlyers ==
    /\ sc_pc = "save"
    /\ IF all_flyers # <<>>
       THEN \/ json_file' = [state |-> "ok", flyers |-> all_flyers]
            \/ \* open raises: the file is as it was
               json_file' = json_file
            \/ \* json.dump raises after open truncated the file
               json_file' = [state |-> "corrupt", flyers |-> <<>>]
       ELSE json_file' = json_file
    /\ sc_pc' = "done"
    /\ UNCHANGED <<resolveVars, all_flyers, syncVars, enrichVars, parseVars, catVars,
                   billaVars, postVars>>

NextScrape == ScrapeHofer \/ ScrapeBilla \/ SaveFlyers

SpecScrape == InitScrape /\ [][NextScrape]_vars

----------------------------------------------------------------------------
(* leaflet_downloader.py: slugify                                          *)

UpperLetters ==
    <<"A", "B", "C", "D", "E", "F", "G", "H", "I", "J", "K", "L", "M", "N",
      "O", "P", "Q", "R", "S", "T", "U", "V", "W", "X", "Y", "Z", "Ä", "Ö",
      "Ü">>

LowerLetters ==
    <<"a", "b", "c", "d", "e", "f", "g", "h", "i", "j", "k", "l", "m", "n",
      "o", "p", "q", "r", "s", "t", "u", "v", "w", "x", "y", "z", "ä", "ö",
      "ü">>

Range(q) == {q[i] : i \in DOMAIN q}

\* c.lower()
LowerChar(c) ==
    IF c \in Range(UpperLetters)
    THEN LowerLetters[CHOOSE i \in DOMAIN UpperLetters : UpperLetters[i] = c]
    ELSE c

\* \w
IsWordChar(c) ==
    c \in Range(UpperLetters) \cup Range(LowerLetters) \cup DigitChars \cup {"_", "ß"}

\* \s
IsSpace(c) == c \in {" ", "\t", "\n"}

\* text.strip()
RECURSIVE LStrip(_)
LStrip(t) == IF t # <<>> /\ IsSpace(Head(t)) THEN LStrip(Tail(t)) ELSE t

RECURSIVE RStrip(_)
RStrip(t) ==
    IF t # <<>> /\ IsSpace(t[Len(t)]) THEN RStrip(SubSeq(t, 1, Len(t) - 1))
    ELSE t

\* the longest slug slugify lets through
SlugLimit == 50

slugify(text) ==
    With(RStrip(LStrip([i \in DOMAIN text |-> LowerChar(text[i])])),
         LAMBDA t1 :
            With(SelectSeq(t1, LAMBDA c : IsWordChar(c) \/ IsSpace(c) \/ c = "-"),
                 LAMBDA t2 :
                    With(SelectSeq(t2, LAMBDA c : ~(IsSpace(c) \/ c = "-")),
                         LAMBDA t3 : SubSeq(t3, 1, Min(SlugLimit, Len(t3))))))

DotPdf == <<".", "p", "d", "f">>

\* filename_slug of line 45: f"{retailer}_{end_date}_{slugify(title)}.pdf"
FilenameSlug(flyer) ==
    flyer.Retailer \o <<"_">> \o flyer.EndDate \o <<"_">>
        \o slugify(flyer.Title) \o DotPdf

\* filename.endswith(".pdf")
EndsWithPdf(filename) ==
    /\ Len(filename) >= Len(DotPdf)
    /\ SubSeq(filename, Len(filename) - Len(DotPdf) + 1, Len(filename)) = DotPdf

\* mutant of ExpectedFilenames: the title is used as it is, not its slug
ExpectedFilenames_rawTitle(flyers) ==
    {flyers[i].Retailer \o <<"_">> \o flyers[i].EndDate \o <<"_">>
        \o flyers[i].Title \o DotPdf : i \in DOMAIN flyers}

\* expected_filenames of lines 89-96, which repeat the naming of line 45
ExpectedFilenames(flyers) ==
    {flyers[i].Retailer \o <<"_">> \o flyers[i].EndDate \o <<"_">>
        \o slugify(flyers[i].Title) \o DotPdf : i \in DOMAIN flyers}

\* mutant of ToSweep: every file that is not expected is swept
ToSweep_anyExtension(dir, expected) == {f \in DOMAIN dir : f \notin expected}

\* the files the sweep calls os.remove on
ToSweep(dir, expected) ==
    {f \in DOMAIN dir : EndsWithPdf(f) /\ f \notin expected}

----------------------------------------------------------------------------
(* leaflet_downloader.py: __main__ and download_active_flyers              *)

\* a directory as a function from file names to contents:
\*   "old"      bytes that were there before the first run
\*   "full"     a completed download
\*   "partial"  a download that stopped after open(..., 'wb')
Remove(dir, names) == [f \in (DOMAIN dir) \ names |-> dir[f]]

\* mutant of Put: the file is not created
Put_nothing(dir, name, content) == dir

\* open(local_filepath, 'wb') and the writes: the file is created or replaced
Put(dir, name, content) ==
    [f \in (DOMAIN dir) \cup {name} |-> IF f = name THEN content ELSE dir[f]]

\* what can happen to the download of one flyer (lines 50-64)
DownloadOutcomes ==
    {"ok",              \* the file is written completely
     "request_failed",  \* requests.get or raise_for_status raises
     "stream_failed",   \* iter_content raises RequestException after open
     "open_failed",     \* open raises OSError
     "write_failed"}    \* f.write raises OSError

\* the active-flyer lists the downloader is run on: outputs of scraper runs
SyncToday == MkDate(2028, 10, 21)

SyncCards ==
    {<<>>, <<[Title |-> TARGET_HOFER_TITLE, PDF_URL |-> 1, Duration |-> DurCurrent]>>}

SyncLinkOutcomes ==
    {<<"found", "found">>, <<"found", "found_no_href">>,
     <<"found", "NoSuchElement">>}

SyncLists ==
    {HoferResults(c, SyncToday) \o b :
        c \in SyncCards,
        b \in {<<>>} \cup {BillaResults(o, SyncToday) : o \in SyncLinkOutcomes}}
    \ {<<>>}

\* files that may lie in the directory before the first run: last week's
\* HOFER flyer, a text file, a file with an upper-case extension
StaleHofer ==
    FilenameSlug([Retailer |-> HOFER, Title |-> TARGET_HOFER_TITLE,
                  EndDate |-> Strftime(MkDate(2028, 10, 15))])

NotesTxt == <<"n", "o", "t", "e", "s", ".", "t", "x", "t">>

ScanPDF == <<"s", "c", "a", "n", ".", "P", "D", "F">>

InitSync ==
    /\ flyers_data = <<>>
    /\ today = SyncToday
    /\ res_pc = "idle"
    /\ result = NoFlyer
    /\ warned = FALSE
    /\ sc_pc = "done"
    /\ all_flyers = <<>>
    /\ \/ \E L \in SyncLists : json_file = [state |-> "ok", flyers |-> L]
       \/ json_file = NoFile
       \/ json_file = [state |-> "corrupt", flyers |-> <<>>]
    /\ \E stale \in SUBSET {StaleHofer}, present \in BOOLEAN :
          files = [f \in {NotesTxt, ScanPDF} \cup stale
                         \cup (IF present
                               THEN {FilenameSlug(json_file.flyers[i]) :
                                        i \in DOMAIN json_file.flyers}
                               ELSE {})
                   |-> "old"]
    /\ dl_pc = "load"
    /\ dl_flyers = <<>>
    /\ dl_i = 1
    /\ run = "first"
    /\ dir_start = files
    /\ deleted = {}
    /\ del_failed = {}
    /\ opened = {}
    /\ attempted = {}
    /\ succeeded = {}
    /\ EnrichIdle
    /\ CallsIdle
    /\ CatIdle
    /\ PostIdle

\* step 1 of __main__: read current_active_flyers.json or exit(1)
LoadFlyers ==
    /\ dl_pc = "load"
    /\ IF json_file.state = "ok"
       THEN dl_flyers' = json_file.flyers /\ dl_pc' = "sweep"
       ELSE dl_flyers' = dl_flyers /\ dl_pc' = "exit1"
    /\ UNCHANGED <<resolveVars, scrapeVars, enrichVars, parseVars, catVars,
                   billaVars, postVars, files, dl_i, run, dir_start,
                   deleted, del_failed, opened, attempted, succeeded>>

\* step 2 of __main__: the cleanup loop over os.listdir; os.remove may
\* raise for any of the files, which is printed and the loop goes on
Sweep ==
    /\ dl_pc = "sweep"
    /\ \E sweep \in {ToSweep(files, ExpectedFilenames(dl_flyers))} :
          \E failed \in SUBSET sweep :
              /\ files' = Remove(files, sweep \ failed)
              /\ deleted' = sweep \ failed
              /\ del_failed' = failed
    /\ dl_pc' = "download"
    /\ dl_i' = 1
    /\ UNCHANGED <<resolveVars, scrapeVars, enrichVars, parseVars, catVars,
                   billaVars, postVars, dl_flyers, run, dir_start,
                   opened, attempted, succeeded>>

\* one iteration of the loop of download_active_flyers
Download ==
    /\ dl_pc = "download"
    /\ dl_i <= Len(dl_flyers)
    /\ \E flyer \in {dl_flyers[dl_i]} :
        \E path \in {FilenameSlug(flyer)} :
          IF flyer.PDF_URL = 0
          THEN \* "Skipping flyer with missing PDF_URL"
               /\ dl_i' = dl_i + 1
               /\ UNCHANGED <<dl_pc, files, opened, attempted, succeeded>>
          ELSE \E outcome \in DownloadOutcomes :
               /\ attempted' = attempted \cup {dl_i}
               /\ files' = CASE outcome = "ok" -> Put(files, path, "full")
                             [] outcome = "request_failed" -> files
                             [] outcome = "stream_failed" -> Put(files, path, "partial")
                             [] outcome = "open_failed" -> files
                             [] outcome = "write_failed" -> Put(files, path, "partial")
               /\ opened' = IF outcome \in {"ok", "stream_failed", "write_failed"}
                            THEN opened \cup {path} ELSE opened
               /\ succeeded' = IF outcome = "ok" THEN succeeded \cup {dl_i}
                               ELSE succeeded
               /\ IF outcome \in {"open_failed", "write_failed"}
                  THEN \* OSError is not a RequestException: the script ends
                       dl_pc' = "crashed" /\ dl_i' = dl_i
                  ELSE dl_pc' = dl_pc /\ dl_i' = dl_i + 1
    /\ UNCHANGED <<resolveVars, scrapeVars, enrichVars, parseVars, catVars,
                   billaVars, postVars, dl_flyers, run, dir_start,
                   deleted, del_failed>>

\* the loop is over: the summary is printed and the script ends
FinishDownloads ==
    /\ dl_pc = "download"
    /\ dl_i > Len(dl_flyers)
    /\ dl_pc' = "done"
    /\ UNCHANGED <<resolveVars, scrapeVars, enrichVars, parseVars, catVars,
                   billaVars, postVars, dl_flyers, files, dl_i, run,
                   dir_start, deleted, del_failed, opened, attempted, succeeded>>

\* after a completed run the script is run again on the same
\* current_active_flyers.json
SecondRun ==
    /\ dl_pc = "done"
    /\ run = "first"
    /\ run' = "second"
    /\ dl_pc' = "load"
    /\ dl_flyers' = <<>>
    /\ dl_i' = 1
    /\ dir_start' = files
    /\ deleted' = {}
    /\ del_failed' = {}
    /\ opened' = {}
    /\ attempted' = {}
    /\ succeeded' = {}
    /\ UNCHANGED <<resolveVars, scrapeVars, enrichVars, parseVars, catVars,
                   billaVars, postVars, files>>

NextSync == LoadFlyers \/ Sweep \/ Download \/ FinishDownloads \/ SecondRun

SpecSync == InitSync /\ [][NextSync]_vars

----------------------------------------------------------------------------
(* data_enricher.py                                                        *)

\* max_retries of process_batch
max_retries == 5

\* Python's None as the value of a field
None == "None"

\* the fields enrich_data_with_llm writes into an offer
EnrichedKeys ==
    {"productHash", "category", "searchTags", "offerStartDate", "offerEndDate"}

\* an offer of merged_retail_data.json that carries no productHash
RawOffer(n) == [productName |-> n, storeName |-> "HOFER"]

\* an offer as post_process_data of new_gem_catego_2.py leaves it:
\* productHash, offerEndDate and offerStartDate are set on every offer
ProcessedOffer(n) ==
    [productName |-> n, storeName |-> "HOFER", productHash |-> "old",
     offerEndDate |-> "old", offerStartDate |-> "old"]

\* the lists handed to enrich_data_with_llm: offer k is named k
OfferLists ==
    UNION { { [k \in 1..n |-> IF shape[k] = "raw" THEN RawOffer(k)
                              ELSE ProcessedOffer(k)]
              : shape \in [1..n -> {"raw", "processed"}] } : n \in 0..MaxOffers }

\* len(batches) of [offers[i:i + BATCH_SIZE] for i in range(0, total, BATCH_SIZE)]
NumBatches(total) == (total + BATCH_SIZE - 1) \div BATCH_SIZE

\* len(batch) of batch b, counted from 1
BatchLen(total, b) == Min(b * BATCH_SIZE, total) - (b - 1) * BATCH_SIZE

\* the 'id' of an element of the parsed response
IntId(k) == [kind |-> "int", val |-> k]

NoneId == [kind |-> "none", val |-> 0]

StrId == [kind |-> "str", val |-> 0]

ItemIds(total) == {IntId(k) : k \in (0 - 1)..total} \cup {NoneId, StrId}

\* an element of the parsed response that is no JSON object
NonDict == [isdict |-> FALSE, id |-> NoneId, has |-> {}, category |-> None]

\* the enum of the response schema
PREDETERMINED_CATEGORIES ==
    { "Fresh Produce (Obst & Gemüse)",
      "Meat & Poultry (Fleisch & Geflügel)",
      "Fish & Seafood (Fisch)",
      "Dairy & Eggs (Milchprodukte & Eier)",
      "Frozen Foods (Tiefkühl)",
      "Pantry & Baking (Grundnahrungsmittel)",
      "Drinks & Beverages (Getränke)",
      "Snacks & Confectionery (Süßwaren & Snacks)",
      "Household & Cleaning (Haushalt)",
      "Pet Supplies (Tiernahrung)",
      "Health & Beauty (Drogerie)",
      "Bread & Bakery (Brot & Gebäck)",
      "Miscellaneous" }

\* a category of the enum and one that is not in it
DairyCategory == "Dairy & Eggs (Milchprodukte & Eier)"

OtherCategory == "Gadgets"

\* the elements a parsed response can hold: objects with all fields and
\* any id, objects for offer 0 without a productHash, with a category
\* outside the enum or with none, and elements that are no objects
Items(total) ==
    {NonDict} \cup
    { [isdict |-> TRUE, id |-> i, has |-> EnrichedKeys,
       category |-> DairyCategory] : i \in ItemIds(total) } \cup
    { [isdict |-> TRUE, id |-> IntId(0),
       has |-> EnrichedKeys \ {"productHash"}, category |-> DairyCategory],
      [isdict |-> TRUE, id |-> IntId(0), has |-> EnrichedKeys,
       category |-> OtherCategory],
      [isdict |-> TRUE, id |-> IntId(0), has |-> EnrichedKeys \ {"category"},
       category |-> None] }

\* the lists process_batch can return for a batch of n offers when the
\* response parses to a list: up to n elements
ResponseLists(n, total) == UNION { [1..m -> Items(total)] : m \in 0..n }

\* enriched_item.get(key)
ItemGet(item, key) ==
    IF key \notin item.has THEN None
    ELSE IF key = "category" THEN item.category ELSE "new"

\* offers[original_index].update({...}) of lines 207-213
UpdateOffer(offer, item) ==
    [k \in (DOMAIN offer) \cup EnrichedKeys |->
        IF k \in EnrichedKeys THEN ItemGet(item, k) ELSE offer[k]]

\* mutant of MergeItem: an id below zero counts from the end of the list
MergeItem_negativeIndex(st, item) ==
    IF st.raised THEN st
    ELSE IF ~item.isdict THEN [st EXCEPT !.raised = TRUE]
    ELSE IF item.id.kind = "str" THEN st
    ELSE IF item.id.kind = "int" /\ 0 - 1 <= item.id.val
                                 /\ item.id.val < Len(st.offers)
    THEN [st EXCEPT !.offers[IF item.id.val < 0 THEN Len(st.offers)
                             ELSE item.id.val + 1] = UpdateOffer(@, item),
                    !.accepted = @ \cup {item.id.val},
                    !.successful = @ + 1]
    ELSE st

\* one turn of the merge loop of lines 203-217. An element that is no object
\* raises AttributeError at .get; the handler calls .get again, and that
\* error leaves enrich_data_with_llm. An id that is a string raises
\* TypeError at the comparison: warned and skipped.
MergeItem(st, item) ==
    IF st.raised THEN st
    ELSE IF ~item.isdict THEN [st EXCEPT !.raised = TRUE]
    ELSE IF item.id.kind = "str" THEN st
    ELSE IF item.id.kind = "int" /\ 0 <= item.id.val
                                 /\ item.id.val < Len(st.offers)
    THEN [st EXCEPT !.offers[item.id.val + 1] = UpdateOffer(@, item),
                    !.accepted = @ \cup {item.id.val},
                    !.successful = @ + 1]
    ELSE st

RECURSIVE MergeFrom(_, _, _)
\* for enriched_item in processed_batch, from element k on
MergeFrom(st, items, k) ==
    IF k > Len(items) THEN st
    ELSE MergeFrom(MergeItem(st, items[k]), items, k + 1)

\* mutant of prepare_batch_for_llm: the ids are the positions in the batch
prepare_batch_for_llm_localIds(batch, offset_index) ==
    [i \in 1..Len(batch) |->
        [id |-> i - 1, productName |-> batch[i].productName]]

\* the minimal batch: the id offset_index + i and the fields of the offer
\* the Oracle is shown (of them the model keeps productName)
prepare_batch_for_llm(batch, offset_index) ==
    [i \in 1..Len(batch) |->
        [id |-> offset_index + i - 1, productName |-> batch[i].productName]]

\* batches[b - 1] of line 188, b counted from 1
Batch(os, b) ==
    SubSeq(os, (b - 1) * BATCH_SIZE + 1, Min(b * BATCH_SIZE, Len(os)))

\* [offer for offer in offers if 'productHash' in offer]
Filtered(os) == SelectSeq(os, LAMBDA offer : "productHash" \in DOMAIN offer)

InitEnrich ==
    /\ flyers_data = <<>>
    /\ today = SyncToday
    /\ res_pc = "idle"
    /\ result = NoFlyer
    /\ warned = FALSE
    /\ sc_pc = "idle"
    /\ all_flyers = <<>>
    /\ json_file = NoFile
    /\ SyncIdle
    /\ offers \in OfferLists
    /\ input_offers = offers
    /\ en_pc = "batches"
    /\ batch_index = 1
    /\ current_offset = 0
    /\ attempt = 0
    /\ sleeps = <<>>
    /\ accepted = {}
    /\ abandoned = {}
    /\ successful_enrichments = 0
    /\ enriched_data = <<>>
    /\ dispatches = <<>>
    /\ processed_batch = <<>>
    /\ offers_before = offers
    /\ output_file = NoOutput
    /\ CallsIdle
    /\ CatIdle
    /\ PostIdle

\* process_batch builds minimal_input once, before its first attempt
Dispatched ==
    IF attempt = 0
    THEN Append(dispatches,
                [offset |-> current_offset,
                 minimal_input |->
                    prepare_batch_for_llm(Batch(offers, batch_index),
                                          current_offset)])
    ELSE dispatches

\* what follows the merge loop of a batch: current_offset += len(batch), the
\* next batch, and after the last batch the filter and the return, upon
\* which __main__ writes the list to enriched_retail_data.json; when the
\* merge raised, __main__ prints "Process failed" and writes nothing
AfterBatch(st) ==
    /\ offers' = st.offers
    /\ accepted' = st.accepted
    /\ successful_enrichments' = st.successful
    /\ IF st.raised
       THEN /\ en_pc' = "raised"
            /\ UNCHANGED <<batch_index, current_offset, attempt, sleeps,
                           enriched_data, output_file>>
       ELSE /\ current_offset' =
                  current_offset + BatchLen(Len(offers), batch_index)
            /\ batch_index' = batch_index + 1
            /\ attempt' = 0
            /\ sleeps' = <<>>
            /\ IF batch_index = NumBatches(Len(offers))
               THEN /\ enriched_data' = Filtered(st.offers)
                    /\ en_pc' = "returned"
                    /\ output_file' = [state |-> "written",
                                       records |-> Filtered(st.offers)]
               ELSE UNCHANGED <<en_pc, enriched_data, output_file>>

\* the state of the merge before the elements of a batch are merged
MergeStart ==
    [offers |-> offers, accepted |-> accepted,
     successful |-> successful_enrichments, raised |-> FALSE]

\* enrich_data_with_llm([]): no batch, the filter of an empty list
\* (__main__ exits at lines 250-252 when no offer was loaded: no file)
EnrichNothing ==
    /\ en_pc = "batches"
    /\ Len(offers) = 0
    /\ enriched_data' = Filtered(offers)
    /\ en_pc' = "returned"
    /\ UNCHANGED <<resolveVars, scrapeVars, syncVars, parseVars, catVars, billaVars, postVars,
                   offers, input_offers, batch_index, current_offset, attempt,
                   sleeps, accepted, abandoned, successful_enrichments,
                   dispatches, processed_batch, offers_before, output_file>>

\* mutant of Backoff: the same delay before every retry
Backoff_constant(failed_attempt) == 2

\* line 172: time.sleep(2**(attempt+1)), attempt counted from 0
Backoff(failed_attempt) == 2 ^ (failed_attempt + 1)

\* an attempt of process_batch other than the last raises (transport, HTTP
\* status, no text, no JSON, no list): time.sleep(2**(attempt+1)), next one
AttemptFails ==
    /\ en_pc = "batches"
    /\ batch_index <= NumBatches(Len(offers))
    /\ attempt < max_retries - 1
    /\ sleeps' = Append(sleeps, Backoff(attempt))
    /\ attempt' = attempt + 1
    /\ dispatches' = Dispatched
    /\ UNCHANGED <<resolveVars, scrapeVars, syncVars, parseVars, catVars, billaVars, postVars,
                   en_pc, offers, input_offers, batch_index, current_offset,
                   accepted, abandoned, successful_enrichments, enriched_data,
                   processed_batch, offers_before, output_file>>

\* the last attempt raises: process_batch returns [], nothing is merged
BatchAbandoned ==
    /\ en_pc = "batches"
    /\ batch_index <= NumBatches(Len(offers))
    /\ attempt = max_retries - 1
    /\ abandoned' = abandoned \cup {batch_index}
    /\ dispatches' = Dispatched
    /\ processed_batch' = <<>>
    /\ offers_before' = offers
    /\ AfterBatch(MergeStart)
    /\ UNCHANGED <<resolveVars, scrapeVars, syncVars, parseVars, catVars, billaVars, postVars,
                   input_offers>>

\* an attempt gets a list: process_batch returns it and it is merged
BatchMerged ==
    /\ en_pc = "batches"
    /\ batch_index <= NumBatches(Len(offers))
    /\ attempt < max_retries
    /\ \E response \in
            ResponseLists(BatchLen(Len(offers), batch_index), Len(offers)) :
          /\ processed_batch' = response
          /\ \E st \in {MergeFrom(MergeStart, response, 1)} : AfterBatch(st)
    /\ dispatches' = Dispatched
    /\ offers_before' = offers
    /\ UNCHANGED <<resolveVars, scrapeVars, syncVars, parseVars, catVars, billaVars, postVars,
                   input_offers, abandoned>>

NextEnrich == EnrichNothing \/ AttemptFails \/ BatchAbandoned \/ BatchMerged

SpecEnrich == InitEnrich /\ [][NextEnrich]_vars

----------------------------------------------------------------------------
(* Calls of parse_hofer_dates and calculate_billa_duration_range           *)

\* the scraper, the downloader and the enricher at rest
PipelineIdle ==
    /\ flyers_data = <<>>
    /\ today = SyncToday
    /\ res_pc = "idle"
    /\ result = NoFlyer
    /\ warned = FALSE
    /\ sc_pc = "idle"
    /\ all_flyers = <<>>
    /\ json_file = NoFile
    /\ SyncIdle
    /\ EnrichIdle

\* the pieces the duration texts are made of: dates with and without the
\* closing dot, a day.month that is no calendar date, a time of day, a
\* year, a separator and words
ParseTokens ==
    { <<"2", "0", ".", "1", "0", ".">>,
      <<"2", "2", ".", "1", "0", ".">>,
      <<"5", ".", "1", "1">>,
      <<"3", "1", ".", "9", ".">>,
      <<"2", "8", ".", "1", "2", ".">>,
      <<"0", "3", ".", "0", "1", ".">>,
      <<"2", "9", ".", "2", ".">>,
      <<"8", ".", "0", "0">>,
      <<"2", "0", "2", "9">>,
      <<" ", "-", " ">>,
      <<"n", "o", " ", "d", "a", "t", "e", "s", " ", "h", "e", "r", "e">> }

RECURSIVE Concat(_)
\* the pieces of a text, joined
Concat(pieces) ==
    IF pieces = <<>> THEN <<>> ELSE Head(pieces) \o Concat(Tail(pieces))

\* the duration texts: up to MaxTokens pieces in a row
ParseTexts ==
    UNION { {Concat(ps) : ps \in [1..n -> ParseTokens]} : n \in 0..MaxTokens }

\* the context years: a common year and a leap year
ParseYears == {2025, 2028}

InitParse ==
    /\ PipelineIdle
    /\ CatIdle
    /\ PostIdle
    /\ parse_str \in ParseTexts
    /\ parse_year \in ParseYears
    /\ parse_pc = "call"
    /\ parse_ret = [raised |-> FALSE, start |-> NoDate, end |-> NoDate]
    /\ billa_today = NoDate
    /\ billa_pc = "idle"
    /\ billa_ret = [start |-> NoDate, end |-> NoDate, text |-> <<>>]

\* parse_hofer_dates(parse_str, parse_year) returns
ParseReturn ==
    /\ parse_pc = "call"
    /\ \E r \in {parse_hofer_dates(parse_str, parse_year)} :
          /\ ~r.raised
          /\ parse_ret' = r
          /\ parse_pc' = "returned"
    /\ UNCHANGED <<resolveVars, scrapeVars, syncVars, enrichVars, billaVars, postVars, catVars,
                   parse_str, parse_year>>

\* end_date.replace(year=end_date.year + 1) raises ValueError
ParseRaise ==
    /\ parse_pc = "call"
    /\ \E r \in {parse_hofer_dates(parse_str, parse_year)} :
          /\ r.raised
          /\ parse_ret' = r
          /\ parse_pc' = "raised"
    /\ UNCHANGED <<resolveVars, scrapeVars, syncVars, enrichVars, billaVars, postVars, catVars,
                   parse_str, parse_year>>

NextParse == ParseReturn \/ ParseRaise

SpecParse == InitParse /\ [][NextParse]_vars

\* the first of the days on which the BILLA cycle is computed
BillaFirstDay == MkDate(2027, 12, 20)

InitBilla ==
    /\ PipelineIdle
    /\ CatIdle
    /\ PostIdle
    /\ parse_str = <<>>
    /\ parse_year = 0
    /\ parse_pc = "idle"
    /\ parse_ret = [raised |-> FALSE, start |-> NoDate, end |-> NoDate]
    /\ billa_today \in {AddDays(BillaFirstDay, k) : k \in 0..MaxDays}
    /\ billa_pc = "call"
    /\ billa_ret = [start |-> NoDate, end |-> NoDate, text |-> <<>>]

\* calculate_billa_duration_range() with date.today() = billa_today
BillaCall ==
    /\ billa_pc = "call"
    /\ billa_ret' = calculate_billa_duration_range(billa_today)
    /\ billa_pc' = "returned"
    /\ UNCHANGED <<resolveVars, scrapeVars, syncVars, enrichVars, parseVars, catVars,
                   postVars, billa_today>>

NextBilla == BillaCall

SpecBilla == InitBilla /\ [][NextBilla]_vars

----------------------------------------------------------------------------
(* new_gem_catego_2.py: the processed log, analyze_pdf_with_gemini_vision  *)
(* and process_active_flyers                                               *)

FlyerA == <<"a", ".", "p", "d", "f">>

FlyerB == <<"b", ".", "p", "d", "f">>

\* a flyer categorized by an earlier run and swept from downloads since
OldFlyer == <<"o", ".", "p", "d", "f">>

\* the names the histories of a run are kept for
CatNames == {FlyerA, FlyerB, OldFlyer}

\* glob.glob(os.path.join(DOWNLOAD_DIR, "*.pdf")): the names that end in
\* .pdf and do not start with a dot
Glob(dir) == {f \in DOMAIN dir : EndsWithPdf(f) /\ Head(f) # "."}

\* load_processed_log(): set() when the file is missing or not decodable
load_processed_log(file) ==
    IF file.state = "ok" THEN file.names ELSE {}

\* what open(PROCESSED_LOG_PATH, 'w') and json.dump can do to the file
SaveOutcomes == {"written", "open_failed", "dump_failed"}

\* save_processed_log(processed_files): open(.., 'w') truncates the file,
\* json.dump fills it; any exception is printed and swallowed. A dump that
\* fails leaves the text written so far: the names without the end of the
\* list, which json.load cannot decode
save_processed_log(file, names, outcome) ==
    CASE outcome = "written" -> [state |-> "ok", names |-> names]
      [] outcome = "open_failed" -> file
      [] outcome = "dump_failed" -> [state |-> "corrupt", names |-> names]

\* chunk_list(data, size): data[i:i + size] for i in range(0, len(data), size)
chunk_list(data, size) ==
    [k \in 1..((Len(data) + size - 1) \div size) |->
        SubSeq(data, (k - 1) * size + 1, Min(k * size, Len(data)))]

\* the pages convert_from_path returned for a file, as page numbers
Pages(name) == [p \in 1..downloads[name] |-> p]

\* the page chunks of the file under analysis
Chunks(name) == chunk_list(Pages(name), PAGE_CHUNK_SIZE)

\* the files of the extraction service that hold the pages qs of a flyer
Uploaded(name, qs) == {<<name, qs[i]>> : i \in 1..Len(qs)}

\* mutant of AlreadyProcessed: no file is taken for processed
AlreadyProcessed_never(pdf_filename, processed) == FALSE

\* line 367: if pdf_filename in processed_files
AlreadyProcessed(pdf_filename, processed) == pdf_filename \in processed

\* the orders glob can return a set of names in
Orders(S) ==
    {q \in [1..Cardinality(S) -> S] : \A i, j \in 1..Cardinality(S) :
                                          i # j => q[i] # q[j]}

\* the pages of the flyers: one of MaxPages pages, which makes several
\* chunks, and one of a single page
PageCount(f) == IF f = FlyerA THEN MaxPages ELSE IF f = FlyerB THEN 1 ELSE 0

\* the directories: some of the flyers, and a file that is no PDF
Stores ==
    { [f \in S \cup {NotesTxt} |-> PageCount(f)] : S \in SUBSET {FlyerA, FlyerB} }

\* the states of processed_flyer_log.json before the first run
LogFiles ==
    {NoLog, [state |-> "corrupt", names |-> {}],
     [state |-> "corrupt", names |-> {OldFlyer}]}
        \cup {[state |-> "ok", names |-> ns] : ns \in SUBSET {FlyerA, OldFlyer}}

\* extracted_json/<name>.json: absent, or the chunks whose offers it holds
NoJson == [state |-> "absent", chunks |-> {}]

\* the histories of a run before it did anything
RunStart ==
    /\ log_saves' = 0
    /\ log_loads' = 0
    /\ loaded_log' = {}
    /\ processed_files' = {}
    /\ pdf_files' = <<>>
    /\ pdf_i' = 1
    /\ chunk_index' = 1
    /\ all_uploaded_files' = {}
    /\ combined_raw_data' = {}
    /\ cat_attempts' = [f \in CatNames |-> 0]
    /\ cat_uploads' = [f \in CatNames |-> 0]
    /\ cat_calls' = [f \in CatNames |-> 0]
    /\ cat_lost' = [f \in CatNames |-> {}]
    /\ cat_success' = [f \in CatNames |-> "none"]
    /\ remote_files' = {}
    /\ delete_attempts' = {}

InitCategorize ==
    /\ PipelineIdle
    /\ CallsIdle
    /\ PostIdle
    /\ cat_pc = "start"
    /\ downloads \in Stores
    /\ log_file \in LogFiles
    /\ log_start = log_file
    /\ log_saves = 0
    /\ log_loads = 0
    /\ loaded_log = {}
    /\ processed_files = {}
    /\ pdf_files = <<>>
    /\ pdf_i = 1
    /\ chunk_index = 1
    /\ all_uploaded_files = {}
    /\ combined_raw_data = {}
    /\ cat_attempts = [f \in CatNames |-> 0]
    /\ cat_uploads = [f \in CatNames |-> 0]
    /\ cat_calls = [f \in CatNames |-> 0]
    /\ cat_lost = [f \in CatNames |-> {}]
    /\ cat_success = [f \in CatNames |-> "none"]
    /\ remote_files = {}
    /\ delete_attempts = {}
    /\ extracted_json = [f \in CatNames |-> NoJson]

\* the file the loop of process_active_flyers is at
CurrentPdf == pdf_files[pdf_i]

\* mutant of EndOfIteration: the log is saved after every file
EndOfIteration_saveEach(pf) ==
    /\ processed_files' = pf
    /\ pdf_i' = pdf_i + 1
    /\ cat_pc' = IF pdf_i = Len(pdf_files) THEN "done" ELSE "loop"
    /\ log_saves' = log_saves + 1
    /\ \E outcome \in SaveOutcomes :
          log_file' = save_processed_log(log_file, pf, outcome)

\* the end of one iteration of the loop of lines 362-381 with the set pf in
\* memory; after the last file save_processed_log(processed_files) of 384
EndOfIteration(pf) ==
    /\ processed_files' = pf
    /\ pdf_i' = pdf_i + 1
    /\ IF pdf_i = Len(pdf_files)
       THEN /\ cat_pc' = "done"
            /\ log_saves' = log_saves + 1
            /\ \E outcome \in SaveOutcomes :
                  log_file' = save_processed_log(log_file, pf, outcome)
       ELSE /\ cat_pc' = "loop"
            /\ UNCHANGED <<log_file, log_saves>>

\* mutant of Return: the cleanup loop ends at the delete that fails
Return_stopAtFailedDelete(name, success, ups) ==
    /\ \E kept \in {{}} \cup {{f} : f \in ups} :
          /\ remote_files' =
                 (remote_files \ ups)
                     \cup {u \in ups : \E f \in kept : u[2] >= f[2]}
          /\ delete_attempts' =
                 delete_attempts
                     \cup {u \in ups : \A f \in kept : u[2] <= f[2]}
    /\ cat_success' = [cat_success EXCEPT ![name] = success]
    /\ EndOfIteration(IF success = "True"
                      THEN processed_files \cup {name}
                      ELSE processed_files)

\* analyze_pdf_with_gemini_vision returns success for the file name, with
\* ups the files it uploaded: the finally block of 323-331 calls
\* client.files.delete for each of them, one of which may fail, and 378-381
\* log the file when success is true
Return(name, success, ups) ==
    /\ delete_attempts' = delete_attempts \cup ups
    /\ \E kept \in {{}} \cup {{f} : f \in ups} :
          remote_files' = (remote_files \ ups) \cup kept
    /\ cat_success' = [cat_success EXCEPT ![name] = success]
    /\ EndOfIteration(IF success = "True"
                      THEN processed_files \cup {name}
                      ELSE processed_files)

\* lines 339-348: GEMINI_API_KEY is missing or genai.Client() raises, and
\* the function returns before the log is loaded
CatNoClient ==
    /\ cat_pc = "start"
    /\ cat_pc' = "no_client"
    /\ UNCHANGED <<resolveVars, scrapeVars, syncVars, enrichVars, parseVars,
                   billaVars, postVars, downloads, log_file, log_start,
                   log_loads, log_saves,
                   loaded_log, processed_files,
                   pdf_files, pdf_i, chunk_index, all_uploaded_files,
                   combined_raw_data, cat_attempts, cat_uploads, cat_calls,
                   cat_lost, cat_success, remote_files, delete_attempts,
                   extracted_json>>

\* lines 350-358: the log is loaded, glob finds no PDF, and the function
\* returns without saving the log
CatNoPdfs ==
    /\ cat_pc = "start"
    /\ Glob(downloads) = {}
    /\ loaded_log' = load_processed_log(log_file)
    /\ log_loads' = log_loads + 1
    /\ processed_files' = loaded_log'
    /\ cat_pc' = "returned"
    /\ UNCHANGED <<resolveVars, scrapeVars, syncVars, enrichVars, parseVars,
                   billaVars, postVars, downloads, log_file, log_start, log_saves,
                   pdf_files, pdf_i, chunk_index, all_uploaded_files,
                   combined_raw_data, cat_attempts, cat_uploads, cat_calls,
                   cat_lost, cat_success, remote_files, delete_attempts,
                   extracted_json>>

\* lines 350-362: the log is loaded and the PDFs of downloads are listed
CatStart ==
    /\ cat_pc = "start"
    /\ Glob(downloads) # {}
    /\ loaded_log' = load_processed_log(log_file)
    /\ log_loads' = log_loads + 1
    /\ processed_files' = loaded_log'
    /\ pdf_files' \in Orders(Glob(downloads))
    /\ pdf_i' = 1
    /\ cat_pc' = "loop"
    /\ UNCHANGED <<resolveVars, scrapeVars, syncVars, enrichVars, parseVars,
                   billaVars, postVars, downloads, log_file, log_start, log_saves,
                   chunk_index, all_uploaded_files,
                   combined_raw_data, cat_attempts, cat_uploads, cat_calls,
                   cat_lost, cat_success, remote_files, delete_attempts,
                   extracted_json>>

\* lines 367-370: the file is in the set, continue
CatSkip ==
    /\ cat_pc = "loop"
    /\ AlreadyProcessed(CurrentPdf, processed_files)
    /\ EndOfIteration(processed_files)
    /\ UNCHANGED <<resolveVars, scrapeVars, syncVars, enrichVars, parseVars,
                   billaVars, postVars, downloads, log_start,
                   log_loads, loaded_log, pdf_files,
                   chunk_index, all_uploaded_files,
                   combined_raw_data, cat_attempts, cat_uploads, cat_calls,
                   cat_lost, cat_success, remote_files, delete_attempts,
                   extracted_json>>

\* lines 375 and 225-233: analyze_pdf_with_gemini_vision is called and
\* convert_from_path raises: return False, nothing was uploaded
CatConvertFails ==
    /\ cat_pc = "loop"
    /\ ~AlreadyProcessed(CurrentPdf, processed_files)
    /\ cat_attempts' = [cat_attempts EXCEPT ![CurrentPdf] = @ + 1]
    /\ all_uploaded_files' = {}
    /\ combined_raw_data' = {}
    /\ Return(CurrentPdf, "False", {})
    /\ UNCHANGED <<resolveVars, scrapeVars, syncVars, enrichVars, parseVars,
                   billaVars, postVars, downloads, log_start,
                   log_loads, loaded_log, pdf_files,
                   chunk_index, cat_uploads, cat_calls, cat_lost,
                   extracted_json>>

\* lines 375 and 225-239: analyze_pdf_with_gemini_vision is called and the
\* PDF is split into pages
CatConvert ==
    /\ cat_pc = "loop"
    /\ ~AlreadyProcessed(CurrentPdf, processed_files)
    /\ cat_attempts' = [cat_attempts EXCEPT ![CurrentPdf] = @ + 1]
    /\ all_uploaded_files' = {}
    /\ combined_raw_data' = {}
    /\ chunk_index' = 1
    /\ cat_pc' = "chunks"
    /\ UNCHANGED <<resolveVars, scrapeVars, syncVars, enrichVars, parseVars,
                   billaVars, postVars, downloads, log_file, log_start,
                   log_loads, log_saves,
                   loaded_log, processed_files, pdf_files, pdf_i,
                   cat_uploads, cat_calls, cat_lost, cat_success,
                   remote_files, delete_attempts, extracted_json>>

\* lines 241-302, one chunk: its pages are uploaded, generate_content
\* answers, and the answer is a JSON object that is merged (parsed), or it
\* is no JSON and the except of 299-302 continues with the next chunk
CatChunk ==
    /\ cat_pc = "chunks"
    /\ chunk_index <= Len(Chunks(CurrentPdf))
    /\ \E page_chunk \in {Chunks(CurrentPdf)[chunk_index]} :
          /\ all_uploaded_files' =
                 all_uploaded_files \cup Uploaded(CurrentPdf, page_chunk)
          /\ remote_files' =
                 remote_files \cup Uploaded(CurrentPdf, page_chunk)
          /\ cat_uploads' =
                 [cat_uploads EXCEPT ![CurrentPdf] = @ + Len(page_chunk)]
    /\ cat_calls' = [cat_calls EXCEPT ![CurrentPdf] = @ + 1]
    /\ \E parsed \in BOOLEAN :
          IF parsed
          THEN /\ combined_raw_data' = combined_raw_data \cup {chunk_index}
               /\ UNCHANGED cat_lost
          ELSE /\ cat_lost' = [cat_lost EXCEPT ![CurrentPdf] =
                                                   @ \cup {chunk_index}]
               /\ UNCHANGED combined_raw_data
    /\ chunk_index' = chunk_index + 1
    /\ UNCHANGED <<resolveVars, scrapeVars, syncVars, enrichVars, parseVars,
                   billaVars, postVars, cat_pc, downloads, log_file, log_start, log_loads,
                   log_saves, loaded_log, processed_files, pdf_files, pdf_i,
                   cat_attempts, cat_success, delete_attempts,
                   extracted_json>>

\* lines 241-297, one chunk that raises: an upload raises after uploaded of
\* its pages went through, or all went through and generate_content raises,
\* or its answer is JSON but no object (or has no text) and .get or
\* json.loads raises another exception than JSONDecodeError. The except of
\* 319 returns False after the cleanup
CatChunkRaises ==
    /\ cat_pc = "chunks"
    /\ chunk_index <= Len(Chunks(CurrentPdf))
    /\ \E page_chunk \in {Chunks(CurrentPdf)[chunk_index]} :
       \E uploaded \in 0..Len(page_chunk) :
       \E called \in {c \in BOOLEAN : c => uploaded = Len(page_chunk)} :
          /\ called \/ uploaded < Len(page_chunk)
          /\ all_uploaded_files' =
                 all_uploaded_files
                     \cup Uploaded(CurrentPdf, SubSeq(page_chunk, 1, uploaded))
          /\ cat_uploads' = [cat_uploads EXCEPT ![CurrentPdf] = @ + uploaded]
          /\ cat_calls' = [cat_calls EXCEPT ![CurrentPdf] =
                                                 @ + (IF called THEN 1 ELSE 0)]
          /\ Return(CurrentPdf, "False", all_uploaded_files')
    /\ UNCHANGED <<resolveVars, scrapeVars, syncVars, enrichVars, parseVars,
                   billaVars, postVars, downloads, log_start,
                   log_loads, loaded_log, pdf_files,
                   chunk_index, combined_raw_data, cat_attempts, cat_lost,
                   extracted_json>>

\* lines 304-317 after the last chunk: post_process_data and the dump to
\* extracted_json/<name>.json go through and the function returns True, or
\* one of them raises and the except of 319 returns False
CatFinish ==
    /\ cat_pc = "chunks"
    /\ chunk_index > Len(Chunks(CurrentPdf))
    /\ \E saved \in BOOLEAN :
          IF saved
          THEN /\ extracted_json' =
                      [extracted_json EXCEPT ![CurrentPdf] =
                          [state |-> "written", chunks |-> combined_raw_data]]
               /\ Return(CurrentPdf, "True", all_uploaded_files)
          ELSE /\ UNCHANGED extracted_json
               /\ Return(CurrentPdf, "False", all_uploaded_files)
    /\ UNCHANGED <<resolveVars, scrapeVars, syncVars, enrichVars, parseVars,
                   billaVars, postVars, downloads, log_start,
                   log_loads, loaded_log, pdf_files,
                   chunk_index, all_uploaded_files, combined_raw_data,
                   cat_attempts, cat_uploads, cat_calls, cat_lost>>

\* the process ends (killed, power lost) somewhere between its start and
\* the save_processed_log of line 384
CatCrash ==
    /\ cat_pc \in {"start", "loop", "chunks"}
    /\ cat_pc' = "crashed"
    /\ UNCHANGED <<resolveVars, scrapeVars, syncVars, enrichVars, parseVars,
                   billaVars, postVars, downloads, log_file, log_start, log_loads,
                   log_saves, loaded_log, processed_files, pdf_files, pdf_i,
                   chunk_index, all_uploaded_files, combined_raw_data,
                   cat_attempts, cat_uploads, cat_calls, cat_lost,
                   cat_success, remote_files, delete_attempts,
                   extracted_json>>

\* the next run of the categorizer; the downloader may have swept flyers
\* from downloads in between
CatNextRun ==
    /\ cat_pc \in {"done", "returned", "no_client", "crashed"}
    /\ \E swept \in SUBSET Glob(downloads) :
          downloads' = [f \in (DOMAIN downloads) \ swept |-> downloads[f]]
    /\ cat_pc' = "start"
    /\ log_start' = log_file
    /\ RunStart
    /\ UNCHANGED <<resolveVars, scrapeVars, syncVars, enrichVars, parseVars,
                   billaVars, postVars, log_file, extracted_json>>

NextCategorize ==
    \/ CatNoClient
    \/ CatNoPdfs
    \/ CatStart
    \/ CatSkip
    \/ CatConvertFails
    \/ CatConvert
    \/ CatChunk
    \/ CatChunkRaises
    \/ CatFinish
    \/ CatCrash
    \/ CatNextRun

SpecCategorize == InitCategorize /\ [][NextCategorize]_vars

----------------------------------------------------------------------------
(* new_gem_catego_2.py: parse_start_date and post_process_data             *)

\* Python's None where a text is expected
NoneText == <<"None">>

\* 'N/A'
NotAvailable == <<"N", "/", "A">>

RECURSIVE Split(_, _)
\* s.split(c): the pieces of s between the characters c
Split(s, c) ==
    IF \A i \in 1..Len(s) : s[i] # c THEN <<s>>
    ELSE With(CHOOSE i \in 1..Len(s) :
                  s[i] = c /\ \A j \in 1..(i - 1) : s[j] # c,
              LAMBDA i : <<SubSeq(s, 1, i - 1)>>
                             \o Split(SubSeq(s, i + 1, Len(s)), c))

AllDigits(s) == \A i \in 1..Len(s) : IsDigit(s[i])

\* the directive %d of strptime: 3[0-1]|[1-2]\d|0[1-9]|[1-9]
IsDayField(s) == Len(s) \in {1, 2} /\ AllDigits(s) /\ ToInt(s) \in 1..31

\* the directive %m of strptime: 1[0-2]|0[1-9]|[1-9]
IsMonthField(s) == Len(s) \in {1, 2} /\ AllDigits(s) /\ ToInt(s) \in 1..12

\* datetime.strptime(s, '%Y-%m-%d') as a date; NoDate for ValueError
StrptimeIso(s) ==
    With(Split(s, "-"),
         LAMBDA parts :
            IF /\ Len(parts) = 3
               /\ Len(parts[1]) = 4
               /\ AllDigits(parts[1])
               /\ IsMonthField(parts[2])
               /\ IsDayField(parts[3])
               /\ DateOk(ToInt(parts[1]), ToInt(parts[2]), ToInt(parts[3]))
            THEN MkDate(ToInt(parts[1]), ToInt(parts[2]), ToInt(parts[3]))
            ELSE NoDate)

\* the widths (day, month) the regular expression of '%d%m%Y' tries, in
\* its order: each directive prefers two digits
FieldWidths == <<<<2, 2>>, <<2, 1>>, <<1, 2>>, <<1, 1>>>>

\* whether the string splits into a day of w[1] digits, a month of w[2]
\* digits and four digits of a year
FieldsMatch(s, w) ==
    /\ Len(s) >= w[1] + w[2] + 4
    /\ IsDayField(SubSeq(s, 1, w[1]))
    /\ IsMonthField(SubSeq(s, w[1] + 1, w[1] + w[2]))
    /\ AllDigits(SubSeq(s, w[1] + w[2] + 1, w[1] + w[2] + 4))

\* datetime.strptime(s, '%d%m%Y') as a date; NoDate for ValueError. The
\* first split the regular expression finds is taken; text left over after
\* it and a day the month does not have raise ValueError
StrptimeDMY(s) ==
    With({k \in 1..4 : FieldsMatch(s, FieldWidths[k])},
         LAMBDA ks :
            IF ks = {} THEN NoDate
            ELSE With(FieldWidths[CHOOSE k \in ks : \A j \in ks : k <= j],
                      LAMBDA w :
                         IF w[1] + w[2] + 4 # Len(s) THEN NoDate
                         ELSE With(MkDate(ToInt(SubSeq(s, w[1] + w[2] + 1, Len(s))),
                                          ToInt(SubSeq(s, w[1] + 1, w[1] + w[2])),
                                          ToInt(SubSeq(s, 1, w[1]))),
                                   LAMBDA d :
                                      IF DateOk(d.year, d.month, d.day)
                                      THEN d ELSE NoDate)))

\* the character class [\s\.\-]
IsRangeSep(c) == IsSpace(c) \/ c \in {".", "-"}

\* group 1 of re.search(r'^(\d{1,2}\.\d{1,2})[\s\.\-]', t), <<>> for no match
StartDateMatch(t) ==
    With({w \in {<<2, 2>>, <<2, 1>>, <<1, 2>>, <<1, 1>>} :
             /\ Len(t) >= w[1] + w[2] + 2
             /\ AllDigits(SubSeq(t, 1, w[1]))
             /\ t[w[1] + 1] = "."
             /\ AllDigits(SubSeq(t, w[1] + 2, w[1] + w[2] + 1))
             /\ IsRangeSep(t[w[1] + w[2] + 2])},
         LAMBDA ws :
            IF ws = {} THEN <<>>
            ELSE With(CHOOSE w \in ws : TRUE,
                      LAMBDA w : SubSeq(t, 1, w[1] + w[2] + 1)))

\* day_month.replace('.', '')
WithoutDots(t) == SelectSeq(t, LAMBDA c : c # ".")

\* the first four characters of an ISO date: str(context_year)
YearText(d) == SubSeq(Strftime(d), 1, 4)

\* parse_start_date(date_range_str, end_date_str)
parse_start_date(date_range_str, end_date_str) ==
    IF \/ date_range_str \in {NoneText, <<>>, NotAvailable}
       \/ end_date_str = <<>>
    THEN end_date_str
    ELSE With(StrptimeIso(end_date_str),
         LAMBDA end_date_obj :
            IF end_date_obj = NoDate THEN end_date_str
            ELSE With(StartDateMatch(RStrip(LStrip(date_range_str))),
                 LAMBDA day_month :
                    IF day_month = <<>> THEN end_date_str
                    ELSE With(StrptimeDMY(WithoutDots(day_month)
                                              \o YearText(end_date_obj)),
                         LAMBDA start_date_obj :
                            IF start_date_obj = NoDate THEN end_date_str
                            ELSE Strftime(start_date_obj))))

\* offer_end_date of lines 94-108: the second piece of the file name when
\* it is a date, else the day of the run
OfferEndDate(pdf_filename, now) ==
    With(Split(pdf_filename, "_"),
         LAMBDA parts :
            IF Len(parts) >= 3 /\ StrptimeIso(parts[2]) # NoDate
            THEN parts[2] ELSE Strftime(now))

\* what post_process_data writes into an offer whose availabilityDateRange
\* is date_range (lines 119-125)
post_process_data(date_range, pdf_filename, now) ==
    With(OfferEndDate(pdf_filename, now),
         LAMBDA offer_end_date :
            [offerEndDate |-> offer_end_date,
             offerStartDate |-> parse_start_date(date_range, offer_end_date)])

\* the day.month the range texts begin with
RangeStarts ==
    { <<"2", "8", ".", "1", "2">>,
      <<"2", "0", ".", "1", "0">>,
      <<"1", ".", "1", "2">>,
      <<"3", ".", "1", "1">>,
      <<"3", "1", ".", "2">>,
      <<"2", "9", ".", "2">>,
      <<"2", "5", ".", "1", "0">> }

\* what stands before the first date
RangePrefixes == {<<>>, <<" ">>, <<"a", "b", " ">>}

\* what follows the first date
RangeTails ==
    { <<".", " ", "-", " ", "0", "3", ".", "0", "1", ".">>,
      <<".", "-", "2", "2", ".", "1", "0", ".">>,
      <<" ", "b", "i", "s", " ", "6", ".", "1", "2", ".">>,
      <<>> }

\* the values of availabilityDateRange
DateRanges ==
    {NoneText, <<>>, NotAvailable}
        \cup {p \o s \o t : p \in RangePrefixes, s \in RangeStarts,
                            t \in RangeTails}

\* the days the flyers end on
PostEndDates ==
    {MkDate(2028, 10, 22), MkDate(2028, 12, 6), MkDate(2029, 1, 3),
     MkDate(2028, 2, 29)}

\* the names of the PDFs: RETAILER_YYYY-MM-DD_title.pdf as the downloader
\* writes them, and names that hold no date
PostFilenames ==
    {HOFER \o <<"_">> \o Strftime(d) \o <<"_">> \o FlyerA : d \in PostEndDates}
        \cup {FlyerA, HOFER \o <<"_">> \o FlyerA}

\* datetime.now() of line 108
PostNow == MkDate(2028, 10, 21)

InitPost ==
    /\ PipelineIdle
    /\ CallsIdle
    /\ CatIdle
    /\ pp_pc = "call"
    /\ pp_filename \in PostFilenames
    /\ pp_range \in DateRanges
    /\ pp_offer = [offerEndDate |-> <<>>, offerStartDate |-> <<>>]

\* post_process_data on one offer
PostProcess ==
    /\ pp_pc = "call"
    /\ pp_offer' = post_process_data(pp_range, pp_filename, PostNow)
    /\ pp_pc' = "returned"
    /\ UNCHANGED <<resolveVars, scrapeVars, syncVars, enrichVars, parseVars,
                   billaVars, catVars, pp_filename, pp_range>>

NextPost == PostProcess

SpecPost == InitPost /\ [][NextPost]_vars

----------------------------------------------------------------------------
(* Properties of find_most_relevant_flyer                                  *)

\* what parse_hofer_dates gives for candidate i of flyers_data
ParseOf(i) == parse_hofer_dates(flyers_data[i].Duration, today.year)

\* the candidates whose duration text parses to a date range
ParsedIdx ==
    {i \in 1..Len(flyers_data) :
        ~ParseOf(i).raised /\ ParseOf(i).start # NoDate /\ ParseOf(i).end # NoDate}

EndOf(i) == ParseOf(i).end

CurrentIdx == {i \in ParsedIdx : DateGE(EndOf(i), today)}

\* k has the latest end date of S, and is the first of S to have it
FirstWithMaxEnd(k, S) ==
    /\ k \in S
    /\ \A j \in S : ~DateLT(EndOf(k), EndOf(j))
    /\ \A j \in S : EndOf(j) = EndOf(k) => k <= j

\* C8: when some parsed candidate ends today or later, the returned flyer
\* is the one with the latest end date among those, and of several with
\* that end date the first in scan order.
C8_CurrentMaxEndFirstSeen ==
    (res_pc = "returned" /\ CurrentIdx # {}) =>
        \E k \in CurrentIdx :
            /\ FirstWithMaxEnd(k, CurrentIdx)
            /\ result.PDF_URL = flyers_data[k].PDF_URL
            /\ result.EndDate = Strftime(EndOf(k))

\* an expired card, then two current cards sharing the latest end date:
\* the earlier of the two was returned
C8_Witness ==
    /\ res_pc = "returned"
    /\ \E e \in ParsedIdx \ CurrentIdx, i \in CurrentIdx, j \in CurrentIdx :
          /\ e < i /\ i < j
          /\ EndOf(i) = EndOf(j)
          /\ FirstWithMaxEnd(i, CurrentIdx)
          /\ result.PDF_URL = i

\* C9: when candidates parsed and every one of them ended before today,
\* the returned flyer has the latest end date and the staleness warning is
\* printed; the warning is printed in no other case.
C9_AllExpiredLatestAndWarned ==
    res_pc = "returned" =>
        LET allExpired == ParsedIdx # {} /\ CurrentIdx = {}
        IN  /\ allExpired =>
                /\ warned
                /\ \E k \in ParsedIdx :
                      /\ \A j \in ParsedIdx : ~DateLT(EndOf(k), EndOf(j))
                      /\ result.PDF_URL = flyers_data[k].PDF_URL
                      /\ result.EndDate = Strftime(EndOf(k))
            /\ warned => allExpired

\* two expired cards with different end dates, the older one first
C9_Witness ==
    /\ res_pc = "returned"
    /\ warned
    /\ \E i \in ParsedIdx, j \in ParsedIdx :
          i < j /\ DateLT(EndOf(i), EndOf(j)) /\ result.PDF_URL = j

\* flyers_data without the candidates that do not parse
ParsableOnly ==
    SelectSeq(flyers_data,
              LAMBDA f : LET p == parse_hofer_dates(f.Duration, today.year)
                         IN  ~p.raised /\ p.start # NoDate /\ p.end # NoDate)

\* C10: the call never raises; it returns None exactly when no candidate
\* parses; the candidates that do not parse do not change the selection.
C10_NullIffNoneParsesNeverRaises ==
    /\ res_pc # "raised"
    /\ res_pc = "returned" =>
          /\ (result = NoFlyer) <=> (ParsedIdx = {})
          /\ result = find_most_relevant_flyer(ParsableOnly, today).ret

----------------------------------------------------------------------------
(* Properties of the scraper run                                           *)

\* the lists of active flyers of a run: the one in memory, the one on file
FlyerLists == {all_flyers, json_file.flyers}

----------------------------------------------------------------------------
(* Properties of the downloader                                            *)

\* the active flyers of the run and the file names of their artifacts
ActiveFlyers == json_file.flyers

ExpectedNames == {FilenameSlug(ActiveFlyers[i]) : i \in DOMAIN ActiveFlyers}

PdfNames(dir) == {f \in DOMAIN dir : EndsWithPdf(f)}

\* the .pdf files of the directory that belong to no active flyer
StaleNames(dir) == PdfNames(dir) \ ExpectedNames

\* the active flyers that have a PDF_URL
Downloadable == {i \in DOMAIN ActiveFlyers : ActiveFlyers[i].PDF_URL # 0}

AfterSweep == dl_pc = "download" /\ dl_i = 1

C6_SecondRunSameSet ==
    (run = "second" /\ dl_pc \in {"done", "crashed"}) =>
        /\ dl_pc = "done"
        /\ DOMAIN files = DOMAIN dir_start

\* the store holds no stale .pdf and the file of every downloadable flyer
StoreInSync(dir) ==
    /\ StaleNames(dir) = {}
    /\ \A i \in Downloadable : FilenameSlug(ActiveFlyers[i]) \in DOMAIN dir

\* C6 as amended: a second run over the same list creates only expected
\* files and deletes only stale .pdf files; when the first run left no
\* stale .pdf and the file of every flyer that has a PDF_URL, the second
\* run only overwrites: the set of files stays the same.
C6_SecondRunOnlyOverwrites ==
    run = "second" =>
        /\ (DOMAIN files) \ (DOMAIN dir_start) \subseteq ExpectedNames
        /\ (DOMAIN dir_start) \ (DOMAIN files) \subseteq StaleNames(dir_start)
        /\ StoreInSync(dir_start) => DOMAIN files = DOMAIN dir_start

\* a second run that downloaded two or more flyers again into a store the
\* first run had left in sync
C6_Witness ==
    /\ run = "second"
    /\ dl_pc = "done"
    /\ StoreInSync(dir_start)
    /\ Cardinality(succeeded) >= 2
    /\ \A i \in succeeded : FilenameSlug(ActiveFlyers[i]) \in DOMAIN dir_start
    /\ DOMAIN files = DOMAIN dir_start

\* C7: a failure while fetching or storing one flyer does not end the run:
\* the run completes and has attempted every flyer that has a PDF_URL.
C7_FailureSkippedRunCompletes ==
    /\ dl_pc # "crashed"
    /\ dl_pc = "done" => attempted = Downloadable

\* the flyers whose download was attempted and failed, and whose path no
\* successful download of the run wrote to
FailedOnly ==
    {i \in attempted \ succeeded :
        \A j \in succeeded :
            FilenameSlug(dl_flyers[j]) # FilenameSlug(dl_flyers[i])}

\* C25: after a failed download the file at the flyer's expected path is
\* what it was when the run started, and there is no file at that path if
\* there was none.
C25_FailedDownloadLeavesFileAlone ==
    \A i \in FailedOnly :
        IF FilenameSlug(dl_flyers[i]) \in DOMAIN dir_start
        THEN /\ FilenameSlug(dl_flyers[i]) \in DOMAIN files
             /\ files[FilenameSlug(dl_flyers[i])] =
                    dir_start[FilenameSlug(dl_flyers[i])]
        ELSE FilenameSlug(dl_flyers[i]) \notin DOMAIN files

----------------------------------------------------------------------------
(* Properties of the enricher                                              *)

\* the offers at the indices of idxs (counted from 0), in their order
Picked(os, idxs) ==
    With([k \in 1..Len(os) |-> [ix |-> k, offer |-> os[k]]],
         LAMBDA ps :
            With(SelectSeq(ps, LAMBDA pr : (pr.ix - 1) \in idxs),
                 LAMBDA kept : [k \in 1..Len(kept) |-> kept[k].offer]))

\* C2: enrich_data_with_llm returns exactly the offers whose index was the
\* id of an accepted result of this pass, in their original order.
C2_ReturnsExactlyEnriched ==
    en_pc = "returned" => enriched_data = Picked(offers, accepted)

\* every batch of the pass was abandoned after max_retries failed attempts
AllBatchesAbandoned ==
    /\ en_pc \in {"returned", "raised"}
    /\ abandoned = 1..NumBatches(Len(input_offers))

\* C3: when every batch fails on all attempts, enrich_data_with_llm returns
\* an empty list and does not raise.
C3_AllFailedReturnsEmpty ==
    AllBatchesAbandoned => (en_pc = "returned" /\ enriched_data = <<>>)

----------------------------------------------------------------------------
(* Properties of parse_hofer_dates                                         *)

\* the day.month(.year) matches in the text of the call, left to right
Matches == FindAll(parse_str, 1)

\* the numbers of a match, a missing year replaced by the context year
MatchDate(m) ==
    [year |-> IF m.yearstr # <<>> THEN ToInt(m.yearstr) ELSE parse_year,
     month |-> ToInt(m.month), day |-> ToInt(m.day)]

MatchDates == [i \in 1..Len(Matches) |-> MatchDate(Matches[i])]

\* the matches that are calendar dates
ValidDates == SelectSeq(MatchDates, LAMBDA d : DateOk(d.year, d.month, d.day))

\* d, or d a year later
SameOrNextYear(d) == {d, [d EXCEPT !.year = @ + 1]}

\* C11 as stated: a call that returns dates returns the first match of the
\* text as the start date and the last match as the end date (in the year
\* it was read with, or the next).
C11_FirstAndLastMatch ==
    (parse_pc = "returned" /\ parse_ret.start # NoDate) =>
        /\ parse_ret.start = MatchDates[1]
        /\ parse_ret.end \in SameOrNextYear(MatchDates[Len(MatchDates)])

\* "20.10. - 22.10."
C11_Example ==
    <<"2", "0", ".", "1", "0", ".", " ", "-", " ", "2", "2", ".", "1", "0",
      ".">>

\* C11 as amended: a call that returns dates returns the first match that
\* is a calendar date as the start date and the last such match as the end
\* date (in the year it was read with, or the next), a missing year read
\* as the context year; matches in between and matches that are no
\* calendar date are ignored; ("20.10. - 22.10.", 2025) gives
\* (2025-10-20, 2025-10-22).
C11_FirstAndLastValidMatch ==
    /\ (parse_pc = "returned" /\ parse_ret.start # NoDate) =>
          /\ ValidDates # <<>>
          /\ parse_ret.start = ValidDates[1]
          /\ parse_ret.end \in SameOrNextYear(ValidDates[Len(ValidDates)])
    /\ (parse_pc = "returned" /\ parse_str = C11_Example /\ parse_year = 2025)
          => /\ parse_ret.start = MkDate(2025, 10, 20)
             /\ parse_ret.end = MkDate(2025, 10, 22)

\* a call on a text of three dates, the one in the middle neither the start
\* nor the end that is returned
C11_Witness ==
    /\ parse_pc = "returned"
    /\ Len(ValidDates) = 3
    /\ parse_ret.start = ValidDates[1]
    /\ parse_ret.end = ValidDates[3]
    /\ ValidDates[2] \notin {parse_ret.start, parse_ret.end}

\* C12: the end date's year is incremented by one exactly when the end
\* date is before the start date and its month is less than the start's
\* month; in every other case the end date is returned as parsed.
C12_RolloverExactlyWhenEarlierMonth ==
    (parse_pc # "call" /\ ValidDates # <<>>) =>
        LET s == ValidDates[1]
            e == ValidDates[Len(ValidDates)]
        IN  /\ parse_pc = "returned"
            /\ parse_ret.start = s
            /\ parse_ret.end =
                  IF DateLT(e, s) /\ e.month < s.month
                  THEN [e EXCEPT !.year = @ + 1] ELSE e

\* C13: the call never raises, and it returns (None, None) exactly when
\* the text has no match or no match is a calendar date.
C13_NullIffNoValidDateNeverRaises ==
    parse_pc # "call" =>
        /\ parse_pc = "returned"
        /\ (parse_ret.start = NoDate /\ parse_ret.end = NoDate)
              <=> (ValidDates = <<>>)
        /\ (parse_ret.start # NoDate /\ parse_ret.end # NoDate)
              <=> (ValidDates # <<>>)

\* C28: whenever parse_hofer_dates returns a pair of dates, the start
\* date is not after the end date.
C28_StartNotAfterEnd ==
    (parse_pc = "returned" /\ parse_ret.start # NoDate) =>
        ~DateLT(parse_ret.end, parse_ret.start)

----------------------------------------------------------------------------
(* Properties of calculate_billa_duration_range                            *)

\* C14: for every day the call returns a start date that is a Thursday and
\* an end date six days later; the day of the call lies in that week.
C14_ThursdayToWednesday ==
    /\ billa_pc \in {"idle", "call", "returned"}
    /\ billa_pc = "returned" =>
          /\ IsoWeekday(billa_ret.start) = 4
          /\ DateOk(billa_ret.start.year, billa_ret.start.month,
                    billa_ret.start.day)
          /\ ToOrdinal(billa_ret.end) = ToOrdinal(billa_ret.start) + 6
          /\ ToOrdinal(billa_ret.start) <= ToOrdinal(billa_today)
          /\ ToOrdinal(billa_today) <= ToOrdinal(billa_ret.end)

\* the call on Saturday 2028-01-01: the week began on Thursday 2027-12-30
C14_Witness ==
    /\ billa_pc = "returned"
    /\ billa_today = MkDate(2028, 1, 1)
    /\ IsoWeekday(billa_today) = 6
    /\ billa_ret.start = MkDate(2027, 12, 30)
    /\ billa_ret.end = MkDate(2028, 1, 5)

\* C29: the cycle the call returns contains the day of the call: the
\* start is not after it and the end is not before it.
C29_CycleContainsToday ==
    billa_pc = "returned" =>
        /\ ~DateLT(billa_today, billa_ret.start)
        /\ ~DateLT(billa_ret.end, billa_today)

\* the call on Wednesday 2028-01-05, the last day of the cycle that began
\* in the old year
C29_Witness ==
    /\ billa_pc = "returned"
    /\ billa_today = MkDate(2028, 1, 5)
    /\ IsoWeekday(billa_today) = 3
    /\ billa_ret.end = billa_today
    /\ billa_ret.start.year = 2027

----------------------------------------------------------------------------
(* Properties of the batches and the merge of the enricher                 *)

\* the least number of chunks of size b that hold n records
CeilDiv(n, b) == CHOOSE c \in 0..n : c * b >= n /\ (c = 0 \/ (c - 1) * b < n)

\* the ids of the k-th call of process_batch, in the order sent
DispatchIds(k) ==
    [i \in 1..Len(dispatches[k].minimal_input) |->
        dispatches[k].minimal_input[i].id]

\* C15: the records are cut into ceil(n / BATCH_SIZE) consecutive chunks;
\* the k-th chunk (k from 0) is sent with offset k * BATCH_SIZE, its
\* elements carry the ids offset + position and describe the records at
\* those indices; a pass that returns has sent every chunk, and the ids
\* sent are 0..n-1 in ascending order, each once.
C15_ChunksPartitionTheRecords ==
    /\ \A k \in DOMAIN dispatches :
          /\ dispatches[k].offset = (k - 1) * BATCH_SIZE
          /\ Len(dispatches[k].minimal_input) >= 1
          /\ Len(dispatches[k].minimal_input) <= BATCH_SIZE
          /\ \A i \in DOMAIN dispatches[k].minimal_input :
                /\ DispatchIds(k)[i] = dispatches[k].offset + i - 1
                /\ dispatches[k].minimal_input[i].productName =
                      input_offers[DispatchIds(k)[i] + 1].productName
    /\ Len(dispatches) <= CeilDiv(Len(input_offers), BATCH_SIZE)
    /\ Concat([b \in 1..CeilDiv(Len(input_offers), BATCH_SIZE) |->
                  Batch(input_offers, b)]) = input_offers
    /\ en_pc = "returned" =>
          /\ Len(dispatches) = CeilDiv(Len(input_offers), BATCH_SIZE)
          /\ Concat([k \in DOMAIN dispatches |-> DispatchIds(k)]) =
                [j \in 1..Len(input_offers) |-> j - 1]

\* a pass over more records than one chunk holds, the last chunk shorter:
\* the second chunk went out with offset BATCH_SIZE
C15_Witness ==
    /\ en_pc = "returned"
    /\ Len(dispatches) >= 2
    /\ dispatches[2].offset = BATCH_SIZE
    /\ DispatchIds(2)[1] = BATCH_SIZE
    /\ Len(dispatches[Len(dispatches)].minimal_input) < BATCH_SIZE

\* the elements of the last returned list that the merge loop reaches:
\* those before the first element that is no object
Reached ==
    {k \in DOMAIN processed_batch :
        \A j \in 1..k : processed_batch[j].isdict}

\* element k carries an id that is an integer in [0, len(offers))
IdInRange(k) ==
    /\ processed_batch[k].id.kind = "int"
    /\ 0 <= processed_batch[k].id.val
    /\ processed_batch[k].id.val < Len(offers_before)

\* the reached elements whose id is the index of record i (i from 1)
Hits(i) == {k \in Reached : IdInRange(k) /\ processed_batch[k].id.val = i - 1}

\* C16: after the merge of a returned list the number of records is the
\* same; a record is updated with the enrichment fields of an element if
\* and only if that element's id is an integer in [0, len(records)) and
\* is its index; elements with an id out of range, missing or no integer
\* change nothing; a list of objects raises no error.
C16_MergeUpdatesExactlyIdsInRange ==
    /\ Len(offers) = Len(offers_before)
    /\ \A i \in 1..Len(offers) :
          IF Hits(i) = {}
          THEN offers[i] = offers_before[i]
          ELSE LET k == CHOOSE h \in Hits(i) : \A g \in Hits(i) : g <= h
               IN  /\ DOMAIN offers[i] =
                         (DOMAIN offers_before[i]) \cup EnrichedKeys
                   /\ \A key \in EnrichedKeys :
                         offers[i][key] = ItemGet(processed_batch[k], key)
                   /\ \A key \in (DOMAIN offers_before[i]) \ EnrichedKeys :
                         offers[i][key] = offers_before[i][key]
    /\ (\A k \in DOMAIN processed_batch : processed_batch[k].isdict)
          => en_pc # "raised"

\* a merged list with an element whose id is len(records) and an element
\* whose id is in range: one record was updated, no error
C16_Witness ==
    /\ en_pc \in {"batches", "returned"}
    /\ \E k \in DOMAIN processed_batch :
          processed_batch[k].id = IntId(Len(offers))
    /\ \E k \in DOMAIN processed_batch : IdInRange(k)
    /\ Cardinality({i \in 1..Len(offers) : offers[i] # offers_before[i]}) = 1

\* C17: whatever the Oracle answers, enrich_data_with_llm returns a list
\* and __main__ writes it to the output file.
C17_EnrichReturnsAndOutputWritten ==
    (en_pc \in {"returned", "raised"} /\ input_offers # <<>>) =>
        /\ en_pc = "returned"
        /\ output_file.state = "written"
        /\ output_file.records = enriched_data

\* C20: every record of the enricher's output that has a category has one
\* of PREDETERMINED_CATEGORIES.
C20_OutputCategoriesInEnum ==
    en_pc = "returned" =>
        \A k \in DOMAIN enriched_data :
            "category" \in DOMAIN enriched_data[k] =>
                enriched_data[k]["category"] \in PREDETERMINED_CATEGORIES

\* the reached elements with an id in range that lack an enrichment field
Incomplete ==
    {k \in Reached : IdInRange(k) /\ processed_batch[k].has # EnrichedKeys}

\* C22: an element with a valid id that lacks a required enrichment field
\* is discarded: a record that only such elements point at is as it was
\* before the merge, and if it had no productHash it has none now, so that
\* the filter keeps it out of the output.
C22_IncompleteItemDiscarded ==
    \A i \in 1..Len(offers) :
        (Hits(i) # {} /\ Hits(i) \subseteq Incomplete) =>
            /\ offers[i] = offers_before[i]
            /\ "productHash" \notin DOMAIN offers_before[i] =>
                   "productHash" \notin DOMAIN offers[i]

\* the batch whose returned list was merged last (0 before the first)
LastMerged == IF en_pc = "raised" THEN batch_index ELSE batch_index - 1

\* the indices (from 0) of the records of batch b
OffsetRange(b) ==
    {j \in 0..(Len(offers_before) - 1) :
        /\ (b - 1) * BATCH_SIZE <= j
        /\ j < (b - 1) * BATCH_SIZE + Len(Batch(offers_before, b))}

\* C24: the merge of the list returned for a batch changes only records
\* whose index lies in the offset range of that batch.
C24_MergeStaysInOwnChunk ==
    \A i \in 1..Len(offers) :
        offers[i] # offers_before[i] => (i - 1) \in OffsetRange(LastMerged)

----------------------------------------------------------------------------
(* Properties of the processed log of new_gem_catego_2.py                  *)

\* the files the run added to the set in memory
NewlyLogged == processed_files \ loaded_log

\* C18 (as stated): a file is added to the processed set only when every
\* chunk of it was processed successfully; a file with a chunk whose
\* response failed to parse is not added, and what extracted_json holds of
\* a file added by the run covers all its chunks.
C18_LoggedOnlyWhenEveryChunkParsed ==
    cat_pc \in {"loop", "chunks", "done"} =>
        \A f \in NewlyLogged :
            /\ cat_lost[f] = {}
            /\ extracted_json[f].chunks = DOMAIN Chunks(f)

\* the files of the extraction service that hold pages of the flyer f
FilesOf(f, fs) == {u \in fs : u[1] = f}

\* C19: for a file in the log loaded at the start of the run, the run makes
\* no upload and no generate_content call (and no call of analyze at all);
\* no file is analyzed twice; and when the loop is through, every PDF of
\* downloads that was not in the loaded log was analyzed exactly once.
C19_LoggedSkippedOthersAttemptedOnce ==
    cat_pc \in {"loop", "chunks", "done", "returned"} =>
        /\ \A f \in loaded_log :
               /\ cat_attempts[f] = 0
               /\ cat_uploads[f] = 0
               /\ cat_calls[f] = 0
               /\ FilesOf(f, all_uploaded_files \cup remote_files) = {}
        /\ \A f \in CatNames : cat_attempts[f] <= 1
        /\ cat_pc \in {"done", "returned"} =>
               \A f \in Glob(downloads) \ loaded_log : cat_attempts[f] = 1

\* a finished run over both flyers, one in the loaded log and skipped, the
\* other analyzed with its page uploaded and one generate_content call
C19_Witness ==
    /\ cat_pc = "done"
    /\ Glob(downloads) = {FlyerA, FlyerB}
    /\ FlyerA \in loaded_log
    /\ FlyerB \notin loaded_log
    /\ cat_attempts[FlyerA] = 0
    /\ cat_attempts[FlyerB] = 1
    /\ cat_uploads[FlyerB] = 1
    /\ cat_calls[FlyerB] = 1

\* the run is past the load of the log
LogLoaded == cat_pc \in {"loop", "chunks", "done", "returned"}

\* the loop of the run is through: every listed PDF was skipped or analyzed
AllAttempted ==
    /\ pdf_i = Len(pdf_files) + 1
    /\ \A f \in Glob(downloads) \ loaded_log :
           cat_attempts[f] = 1 /\ cat_success[f] # "none"

\* C23: the log file is read once, at the start of a run, and written at
\* most once, after all files were attempted; as long as the run has not
\* saved (in particular when the process ended before the save) the file is
\* as it was at the start of the run; the run after such an end starts from
\* that same file, and a run loads what its file holds and, once through,
\* has analyzed every PDF not in it.
C23_Run ==
    /\ log_loads <= 1
    /\ log_saves <= 1
    /\ LogLoaded => log_loads = 1 /\ loaded_log = load_processed_log(log_start)
    /\ cat_pc = "chunks" => log_loads = 1
    /\ log_saves = 1 => cat_pc = "done" /\ AllAttempted
    /\ log_saves = 0 => log_file = log_start
    /\ cat_pc = "crashed" => log_saves = 0 /\ log_file = log_start
    /\ cat_pc = "done" => AllAttempted

C23_Step ==
    /\ log_loads' > log_loads => cat_pc = "start"
    /\ log_file' # log_file => log_saves' = 1 /\ cat_pc' = "done"
    /\ (cat_pc = "crashed" /\ cat_pc' = "start") =>
           /\ log_file' = log_start
           /\ log_start' = log_start

C23_ReadOnceWrittenOnceAtEnd == [](C23_Run) /\ [][C23_Step]_vars

\* the process ended after a flyer was analyzed and put into the set in
\* memory and before the save: the file is as at the start, without it
C23_Witness ==
    /\ cat_pc = "crashed"
    /\ FlyerB \in processed_files
    /\ cat_success[FlyerB] = "True"
    /\ FlyerB \notin log_file.names
    /\ log_file = log_start
    /\ log_saves = 0

\* C26: the set a run saves holds every name the log file held at the
\* start of the run, also when the file could not be decoded on load and
\* for flyers that are no longer in downloads.
C26_LedgerOnlyGrows ==
    (cat_pc = "done" /\ log_file.state = "ok") =>
        log_start.names \subseteq log_file.names

\* the files the analysis of the flyer f uploaded: its pages are uploaded
\* in their order
UploadedOf(f) == {<<f, p>> : p \in 1..cat_uploads[f]}

\* C27: once analyze_pdf_with_gemini_vision has returned for a flyer,
\* whatever it returned, client.files.delete was called for every file it
\* uploaded, also when the delete of one of them failed; only files whose
\* delete failed are left at the service.
C27_EveryUploadGetsDeleteAttempt ==
    \A f \in DOMAIN cat_success :
        cat_success[f] # "none" =>
            /\ UploadedOf(f) \subseteq delete_attempts
            /\ FilesOf(f, delete_attempts) = UploadedOf(f)
            /\ FilesOf(f, remote_files) \subseteq UploadedOf(f)

\* a flyer of several pages whose analysis ended with an exception after
\* uploads, and the delete of its first file failed: the others were
\* still attempted
C27_Witness ==
    /\ cat_success[FlyerA] = "False"
    /\ cat_uploads[FlyerA] >= 2
    /\ FilesOf(FlyerA, remote_files) = {<<FlyerA, 1>>}
    /\ <<FlyerA, 2>> \in delete_attempts

----------------------------------------------------------------------------
(* Properties of the retries of process_batch                              *)

\* the delays before the retries after n failed attempts: 2, 4, 8, ...
Doubling(n) == [i \in 1..n |-> 2 ^ i]

\* a step in which process_batch gives up a batch
Abandons == abandoned' # abandoned

\* C21: while a batch is in work, at most max_retries - 1 = 4 attempts have
\* failed and each was followed by a delay twice the one before (2, 4, 8,
\* 16 seconds); a failed attempt other than the fifth is followed by the
\* next attempt on the same batch; the batch is given up exactly at the
\* fifth failure, with no delay added, no offer changed, and the next batch
\* (or the return after the last one) following.
C21_InWork ==
    (en_pc = "batches" /\ batch_index <= NumBatches(Len(offers))) =>
        /\ attempt \in 0..4
        /\ attempt <= max_retries - 1
        /\ sleeps = Doubling(attempt)

C21_Step ==
    /\ (sleeps' # sleeps /\ sleeps' # <<>>) =>
           /\ attempt' = attempt + 1
           /\ sleeps' = Append(sleeps, 2 * (IF attempt = 0 THEN 1
                                            ELSE sleeps[attempt]))
           /\ batch_index' = batch_index
           /\ offers' = offers
           /\ en_pc' = "batches"
    /\ Abandons =>
           /\ attempt = 4
           /\ sleeps = <<2, 4, 8, 16>>
           /\ sleeps' = <<>>
           /\ abandoned' = abandoned \cup {batch_index}
           /\ offers' = offers
           /\ successful_enrichments' = successful_enrichments
           /\ batch_index' = batch_index + 1
           /\ attempt' = 0
           /\ en_pc' = IF batch_index = NumBatches(Len(offers))
                       THEN "returned" ELSE "batches"

C21_RetryPolicy == [](C21_InWork) /\ [][C21_Step]_vars

\* the first batch was given up, the second was dispatched and is at its
\* fifth attempt after four doubling delays
C21_Witness ==
    /\ en_pc = "batches"
    /\ abandoned = {1}
    /\ batch_index = 2
    /\ Len(dispatches) = 2
    /\ attempt = 4
    /\ sleeps = <<2, 4, 8, 16>>
    /\ offers = input_offers

----------------------------------------------------------------------------
(* Properties of post_process_data                                         *)

\* C30: in every offer post_process_data returns, offerStartDate is not
\* after offerEndDate, December-to-January ranges included
C30_StartNotAfterEnd ==
    pp_pc = "returned"
        => ~DateLT(StrptimeIso(pp_offer.offerEndDate),
                   StrptimeIso(pp_offer.offerStartDate))

====
